---- MODULE Spec2Model ----
(***************************************************************************)
(* A model of soapywu/pbxproj: the ordered mapping (pegparser.SliceMap /   *)
(* pegparser.Object), the project mutator (pbxproj.PbxProject) and the     *)
(* serializer (pbxproj.PbxWriter), translated from the Go sources.         *)
(*                                                                         *)
(* Go values are tagged records [t |-> <Go dynamic type>, v |-> <payload>]; *)
(* strings are TLA+ strings handled character by character (Len, SubSeq,   *)
(* \o), so quoting, suffixes and path splitting are computed as the code   *)
(* computes them.                                                          *)
(***************************************************************************)
EXTENDS Integers, Sequences, FiniteSets, TLC

VARIABLES sm, smOp, proj, call, hist, rt

vars == <<sm, smOp, proj, call, hist, rt>>

(***************************************************************************)
(* Bounds of the model.                                                    *)
(***************************************************************************)
MaxMapOps == 5

(***************************************************************************)
(* Go values.                                                              *)
(***************************************************************************)
Nil == [t |-> "nil", v |-> 0]

StrV(s) == [t |-> "string", v |-> s]

IntV(n) == [t |-> "int", v |-> n]

ArrV(seq) == [t |-> "[]interface{}", v |-> seq]

ObjV(m) == [t |-> "Object", v |-> m]

isObject(x) == x.t = "Object"

isArray(x) == x.t = "[]interface{}"

isString(x) == x.t = "string"

isInt(x) == x.t \in {"int", "int8", "int16", "int32", "int64"}

(***************************************************************************)
(* pegparser.SliceMap: mp maps a key to its data and to the index it had   *)
(* in sl when it was inserted; sl is the ordered list of (key, data).      *)
(***************************************************************************)
NewSliceMap == [mp |-> [k \in {} |-> [data |-> Nil, idx |-> 0]], sl |-> <<>>]

Has(m, key) == key \in DOMAIN m.mp

ForceGet(m, key) == IF key \in DOMAIN m.mp THEN m.mp[key].data ELSE Nil

Size(m) == Len(m.sl)

\* Set panics (index out of range) when the key is present and its recorded
\* index is no position of sl; m.mp[key] is assigned before the panic.
SetPanics(m, key) == key \in DOMAIN m.mp /\ m.mp[key].idx >= Len(m.sl)

Set(m, key, v) ==
    IF key \in DOMAIN m.mp
    THEN LET old == m.mp[key]
             mp2 == [m.mp EXCEPT ![key] = [data |-> v, idx |-> old.idx]]
         IN IF old.idx >= Len(m.sl)
            THEN [mp |-> mp2, sl |-> m.sl]
            ELSE [mp |-> mp2,
                  sl |-> [m.sl EXCEPT ![old.idx + 1] = [key |-> key, data |-> v]]]
    ELSE LET sl2 == Append(m.sl, [key |-> key, data |-> v])
         IN [mp |-> (key :> [data |-> v, idx |-> Len(sl2) - 1]) @@ m.mp,
             sl |-> sl2]

\* m.sl[old.idx+1:] panics (slice bounds out of range) when old.idx+1 > len.
DeletePanics(m, key) == key \in DOMAIN m.mp /\ m.mp[key].idx + 1 > Len(m.sl)

RemoveAt(seq, i) == SubSeq(seq, 1, i - 1) \o SubSeq(seq, i + 1, Len(seq))

Delete(m, key) ==
    IF key \in DOMAIN m.mp /\ ~DeletePanics(m, key)
    THEN [mp |-> [k \in DOMAIN m.mp \ {key} |-> m.mp[k]],
          sl |-> RemoveAt(m.sl, m.mp[key].idx + 1)]
    ELSE m

Clear(m) == NewSliceMap

DeleteAt(m, idx) ==
    IF idx < Len(m.sl)
    THEN LET old == m.sl[idx + 1]
         IN [mp |-> [k \in DOMAIN m.mp \ {old.key} |-> m.mp[k]],
             sl |-> RemoveAt(m.sl, idx + 1)]
    ELSE m

\* The keys Foreach visits, in order (entries whose data is nil are skipped).
ForeachKeys(m) ==
    LET vis == SelectSeq(m.sl, LAMBDA it : it.data # Nil)
    IN [i \in 1..Len(vis) |-> vis[i].key]

\* A local variable: K is the rest of the function body, v the value the
\* variable is bound to.
With(v, K(_)) == K(v)

\* The same without an operator argument: Bind([name \in {value} |-> body])
\* is body with the variable name bound to value.
Bind(f) == f[CHOOSE v \in DOMAIN f : TRUE]

(***************************************************************************)
(* Strings, as the Go code handles them (strings.*, path/filepath.*,       *)
(* regexp).  Paths handed to the model are clean slash-separated paths     *)
(* (no ".", ".." or empty elements), for which filepath.Clean only strips  *)
(* trailing slashes.                                                       *)
(***************************************************************************)
COMMENT_KEY_SUFFIX == "_comment"

Char(s, i) == SubSeq(s, i, i)

HasSuffix(s, suf) ==
    Len(s) >= Len(suf) /\ SubSeq(s, Len(s) - Len(suf) + 1, Len(s)) = suf

HasPrefix(s, pre) == Len(s) >= Len(pre) /\ SubSeq(s, 1, Len(pre)) = pre

toCommentKey(key) == key \o COMMENT_KEY_SUFFIX

fromCommentKey(key) ==
    IF HasSuffix(key, COMMENT_KEY_SUFFIX)
    THEN SubSeq(key, 1, Len(key) - Len(COMMENT_KEY_SUFFIX))
    ELSE key

isCommentKey(key) == HasSuffix(key, COMMENT_KEY_SUFFIX)

Quoted(s) == "\"" \o s \o "\""

\* regexp (^")|("$) replaced by "": a leading quote goes, and a trailing
\* quote that is not that same character goes.
unquoted(text) ==
    LET a == IF HasPrefix(text, "\"") THEN SubSeq(text, 2, Len(text)) ELSE text
    IN IF HasSuffix(a, "\"") THEN SubSeq(a, 1, Len(a) - 1) ELSE a

\* Position of the last ch in s, 0 when there is none.
LastIndex(s, ch) ==
    LET at == {i \in 1..Len(s) : Char(s, i) = ch}
    IN IF at = {} THEN 0 ELSE CHOOSE i \in at : \A j \in at : j <= i

RECURSIVE StripSlashes(_)
StripSlashes(s) ==
    IF Len(s) > 1 /\ HasSuffix(s, "/")
    THEN StripSlashes(SubSeq(s, 1, Len(s) - 1))
    ELSE s

FilepathBase(path) ==
    IF path = "" THEN "."
    ELSE LET s == StripSlashes(path)
             b == SubSeq(s, LastIndex(s, "/") + 1, Len(s))
         IN IF b = "" THEN "/" ELSE b

\* filepath.Ext: the suffix from the last dot of the last path element.
FilepathExt(path) ==
    LET dot == LastIndex(path, ".")
    IN IF dot > LastIndex(path, "/") THEN SubSeq(path, dot, Len(path)) ELSE ""

FilepathDir(path) ==
    LET d == SubSeq(path, 1, LastIndex(path, "/"))
    IN IF d = "" THEN "." ELSE StripSlashes(d)

\* s[1:] of Go; it panics (slice bounds out of range) on the empty string.
SliceFrom1(s) == SubSeq(s, 2, Len(s))

(***************************************************************************)
(* PbxFile: the tables and newPbxFile.                                     *)
(***************************************************************************)
DEFAULT_SOURCETREE == "\"<group>\""

DEFAULT_PRODUCT_SOURCETREE == "BUILT_PRODUCTS_DIR"

DEFAULT_GROUP == "Resources"

DEFAULT_FILETYPE == "unknown"

DEFAULT_ENCODING_VALUE == 4

FILETYPE_BY_EXTENSION ==
    [a |-> "archive.ar", app |-> "wrapper.application",
     appex |-> "wrapper.app-extension", bundle |-> "wrapper.plug-in",
     dylib |-> "compiled.mach-o.dylib", framework |-> "wrapper.framework",
     h |-> "sourcecode.c.h", m |-> "sourcecode.c.objc", markdown |-> "text",
     mdimporter |-> "wrapper.cfbundle", octest |-> "wrapper.cfbundle",
     pch |-> "sourcecode.c.h", plist |-> "text.plist.xml",
     sh |-> "text.script.sh", swift |-> "sourcecode.swift",
     tbd |-> "sourcecode.text-based-dylib-definition",
     xcassets |-> "folder.assetcatalog", xcconfig |-> "text.xcconfig",
     xcdatamodel |-> "wrapper.xcdatamodel", xcodeproj |-> "wrapper.pb-project",
     xctest |-> "wrapper.cfbundle", xib |-> "file.xib",
     strings |-> "text.plist.strings"]

GROUP_BY_FILETYPE ==
    ("archive.ar" :> "Frameworks") @@ ("compiled.mach-o.dylib" :> "Frameworks")
    @@ ("sourcecode.text-based-dylib-definition" :> "Frameworks")
    @@ ("wrapper.framework" :> "Frameworks")
    @@ ("embedded.framework" :> "Embed Frameworks")
    @@ ("sourcecode.c.h" :> "Resources") @@ ("sourcecode.c.objc" :> "Sources")
    @@ ("sourcecode.swift" :> "Sources")

PATH_BY_FILETYPE ==
    ("compiled.mach-o.dylib" :> "usr/lib/")
    @@ ("sourcecode.text-based-dylib-definition" :> "usr/lib/")
    @@ ("wrapper.framework" :> "System/Library/Frameworks/")

SOURCETREE_BY_FILETYPE ==
    ("compiled.mach-o.dylib" :> "SDKROOT")
    @@ ("sourcecode.text-based-dylib-definition" :> "SDKROOT")
    @@ ("wrapper.framework" :> "SDKROOT")

ENCODING_BY_FILETYPE ==
    [ft \in {"sourcecode.c.h", "sourcecode.c.objc", "sourcecode.swift", "text",
             "text.plist.xml", "text.script.sh", "text.xcconfig",
             "text.plist.strings"} |-> DEFAULT_ENCODING_VALUE]

Lookup(table, key, default) ==
    IF key \in DOMAIN table THEN table[key] ELSE default

(***************************************************************************)
(* pegparser.Object over a SliceMap, and the list helpers of the mutator.  *)
(* An Object is a pointer to its SliceMap: a change made through an Object *)
(* obtained from its parent is seen in the parent (Mutate), a change made  *)
(* to the fresh Object that GetObject returns for a missing key is lost.   *)
(***************************************************************************)
IsEmpty(m) == Size(m) = 0

GetObject(m, key) ==
    IF Has(m, key) /\ isObject(ForceGet(m, key)) THEN ForceGet(m, key).v
    ELSE NewSliceMap

GetString(m, key) ==
    IF Has(m, key) /\ isString(ForceGet(m, key)) THEN ForceGet(m, key).v ELSE ""

RECURSIVE NewObjectWithData(_)
NewObjectWithData(items) ==
    IF items = <<>> THEN NewSliceMap
    ELSE LET n == Len(items)
         IN Set(NewObjectWithData(SubSeq(items, 1, n - 1)),
                items[n].key, items[n].data)

NewObjectItem(key, value) == [key |-> key, data |-> value]

\* The items Foreach / ForeachWithFilter visit: those whose data is not nil.
Visited(m) == SelectSeq(m.sl, LAMBDA it : it.data # Nil)

nonCommentsItems(m) == SelectSeq(Visited(m), LAMBDA it : ~isCommentKey(it.key))

onlyCommentsItems(m) == SelectSeq(Visited(m), LAMBDA it : isCommentKey(it.key))

\* The object stored under key is changed in place to hold child: both the
\* map entry and the list entry that point to it show the change.
Mutate(m, key, child) ==
    IF ~Has(m, key) THEN m
    ELSE [mp |-> [m.mp EXCEPT ![key] = [data |-> child, idx |-> @.idx]],
          sl |-> [i \in 1..Len(m.sl) |->
                    IF m.sl[i].key = key /\ m.sl[i].data = m.mp[key].data
                    THEN [key |-> key, data |-> child]
                    ELSE m.sl[i]]]

\* The object reached from m by the keys of path is changed in place to new.
RECURSIVE UpdAt(_, _, _)
UpdAt(m, path, new) ==
    IF path = <<>> THEN new
    ELSE Mutate(m, Head(path),
                ObjV(UpdAt(GetObject(m, Head(path)), Tail(path), new)))

RECURSIVE ObjAt(_, _)
ObjAt(m, path) ==
    IF path = <<>> THEN m ELSE ObjAt(GetObject(m, Head(path)), Tail(path))

CommentValue(value, comment) ==
    [t |-> "CommentValue", v |-> [Value |-> value, Comment |-> comment]]

ToObject(c) ==
    NewObjectWithData(<<NewObjectItem("value", StrV(c.v.Value)),
                        NewObjectItem("comment", StrV(c.v.Comment))>>)

\* list.([]interface{}) fails when the stored value is not a []interface{}.
addToObjectListPanics(obj, key) ==
    ~IsEmpty(obj) /\ ForceGet(obj, key) # Nil /\ ~isArray(ForceGet(obj, key))

addToObjectList(obj, key, val) ==
    IF IsEmpty(obj) \/ addToObjectListPanics(obj, key) THEN obj
    ELSE LET list == ForceGet(obj, key)
         IN IF list = Nil THEN Set(obj, key, ArrV(<<val>>))
            ELSE Set(obj, key, ArrV(Append(list.v, val)))

\* equal is v1.(string) == v2.(string): it fails on an element that is no
\* string, when it is reached.
addToObjectListOnlyNotExistPanics(obj, key, val) ==
    /\ ~IsEmpty(obj)
    /\ ForceGet(obj, key) # Nil
    /\ \/ ~isArray(ForceGet(obj, key))
       \/ LET l == ForceGet(obj, key).v
          IN \E i \in 1..Len(l) :
                /\ ~isString(l[i])
                /\ \A j \in 1..(i - 1) : l[j] # val

addToObjectListOnlyNotExist(obj, key, val) ==
    IF IsEmpty(obj) \/ addToObjectListOnlyNotExistPanics(obj, key, val) THEN obj
    ELSE LET list == ForceGet(obj, key)
         IN IF list = Nil THEN Set(obj, key, ArrV(<<val>>))
            ELSE IF \E i \in 1..Len(list.v) : list.v[i] = val THEN obj
            ELSE Set(obj, key, ArrV(Append(list.v, val)))

\* First position of seq whose element satisfies Cond, 0 when there is none.
FirstIdx(seq, Cond(_)) ==
    LET at == {i \in 1..Len(seq) : Cond(seq[i])}
    IN IF at = {} THEN 0 ELSE CHOOSE i \in at : \A j \in at : i <= j

\* condition is file.(pegparser.Object).GetString(field) == want for one or
\* two fields: it fails on an element that is no Object, when it is reached.
removeFromObjectListPanics(obj, key, Cond(_)) ==
    /\ ~IsEmpty(obj)
    /\ ForceGet(obj, key) # Nil
    /\ \/ ~isArray(ForceGet(obj, key))
       \/ LET l == ForceGet(obj, key).v
              hit == FirstIdx(l, LAMBDA e : isObject(e) /\ Cond(e.v))
              bad == FirstIdx(l, LAMBDA e : ~isObject(e))
          IN bad # 0 /\ (hit = 0 \/ bad < hit)

removeFromObjectList(obj, key, Cond(_)) ==
    IF IsEmpty(obj) \/ ForceGet(obj, key) = Nil
       \/ removeFromObjectListPanics(obj, key, Cond) THEN obj
    ELSE LET l == ForceGet(obj, key).v
             hit == FirstIdx(l, LAMBDA e : isObject(e) /\ Cond(e.v))
         IN IF hit = 0 THEN Set(obj, key, ArrV(l))
            ELSE Set(obj, key, ArrV(RemoveAt(l, hit)))

(***************************************************************************)
(* newPbxFile.                                                             *)
(***************************************************************************)
NoOptions ==
    [LastKnownFileType |-> "", CustomFramework |-> FALSE, DefaultEncoding |-> 0,
     ExplicitFileType |-> "", SourceTree |-> "", Weak |-> FALSE,
     CompilerFlags |-> "", Embed |-> FALSE, Sign |-> FALSE, Target |-> "",
     Group |-> "", Plugin |-> FALSE, VariantGroup |-> FALSE, Link |-> FALSE]

newPbxFileOptions == [NoOptions EXCEPT !.Link = TRUE]

detectType(filePath) ==
    Lookup(FILETYPE_BY_EXTENSION, unquoted(SliceFrom1(FilepathExt(filePath))),
           DEFAULT_FILETYPE)

detectGroup(basename, lastKnownFileType, options) ==
    IF SliceFrom1(FilepathExt(basename)) = "xcdatamodeld" THEN "Sources"
    ELSE IF options.CustomFramework /\ options.Embed
         THEN GROUP_BY_FILETYPE["embedded.framework"]
         ELSE Lookup(GROUP_BY_FILETYPE, unquoted(lastKnownFileType),
                     DEFAULT_GROUP)

initDefaultEncoding(lastKnownFileType) ==
    Lookup(ENCODING_BY_FILETYPE, unquoted(lastKnownFileType),
           DEFAULT_ENCODING_VALUE)

detectSourcetree(customFramework, lastKnownFileType) ==
    IF customFramework THEN DEFAULT_SOURCETREE
    ELSE Lookup(SOURCETREE_BY_FILETYPE, unquoted(lastKnownFileType),
                DEFAULT_SOURCETREE)

defaultPath(filePath, customFramework, lastKnownFileType) ==
    IF customFramework THEN filePath
    ELSE IF unquoted(lastKnownFileType) \in DOMAIN PATH_BY_FILETYPE
         THEN StripSlashes(PATH_BY_FILETYPE[unquoted(lastKnownFileType)])
              \o "/" \o FilepathBase(filePath)
         ELSE filePath

\* revertMap(FILETYPE_BY_EXTENSION): the extensions of a file type.  Go ranges
\* over a map in no fixed order, so a file type with several extensions gets
\* any one of them; the file types of products that the model passes have
\* one.
EXTENSION_BY_FILETYPE ==
    [ft \in {FILETYPE_BY_EXTENSION[e] : e \in DOMAIN FILETYPE_BY_EXTENSION} |->
        {e \in DOMAIN FILETYPE_BY_EXTENSION : FILETYPE_BY_EXTENSION[e] = ft}]

\* The file type defaultExtension looks up.
defaultExtensionFiletype(explicitFileType, lastKnownFileType) ==
    IF lastKnownFileType # "" /\ lastKnownFileType # DEFAULT_FILETYPE
    THEN lastKnownFileType
    ELSE explicitFileType

defaultExtension(explicitFileType, lastKnownFileType) ==
    CHOOSE e \in EXTENSION_BY_FILETYPE[
        unquoted(defaultExtensionFiletype(explicitFileType, lastKnownFileType))] :
        TRUE

\* filepath.Ext(...)[1:] in detectType and detectGroup fails on a name
\* without extension, and defaultExtension panics on a file type that has
\* no extension.
newPbxFilePanics(filePath, options) ==
    \/ options.LastKnownFileType = "" /\ FilepathExt(filePath) = ""
    \/ IF options.ExplicitFileType # ""
       THEN unquoted(defaultExtensionFiletype(
                options.ExplicitFileType,
                IF options.LastKnownFileType # ""
                THEN options.LastKnownFileType ELSE detectType(filePath)))
            \notin DOMAIN EXTENSION_BY_FILETYPE
       ELSE FilepathExt(FilepathBase(filePath)) = ""

newPbxFileSettings(options) ==
    Bind([s1 \in {IF options.Weak
         THEN addToObjectList(NewSliceMap, "ATTRIBUTES", StrV("Weak"))
         ELSE NewSliceMap} |->
    Bind([s2 \in {IF options.CompilerFlags # ""
         THEN Set(s1, "COMPILER_FLAGS", StrV(Quoted(options.CompilerFlags)))
         ELSE s1} |->
        IF options.Embed /\ options.Sign
        THEN addToObjectList(s2, "ATTRIBUTES", StrV("CodeSignOnCopy"))
        ELSE s2])])

newPbxFile(filePath, options) ==
    Bind([basename \in {FilepathBase(filePath)} |->
    Bind([ftype \in {IF options.LastKnownFileType # ""
         THEN options.LastKnownFileType
         ELSE detectType(filePath)} |->
    Bind([enc \in {IF options.DefaultEncoding # 0 THEN options.DefaultEncoding
         ELSE initDefaultEncoding(ftype)} |->
    Bind([product \in {options.ExplicitFileType # ""} |->
        [Basename |-> IF product
                      THEN basename \o "."
                           \o defaultExtension(options.ExplicitFileType, ftype)
                      ELSE basename,
         FileRef |-> "",
         LastKnownFileType |-> IF product THEN "" ELSE ftype,
         Group |-> IF product THEN ""
                   ELSE detectGroup(basename, ftype, options),
         CustomFramework |-> options.CustomFramework,
         Dirname |-> IF options.CustomFramework THEN FilepathDir(filePath)
                     ELSE "",
         Path |-> IF product THEN ""
                  ELSE defaultPath(filePath, options.CustomFramework, ftype),
         FileEncoding |-> enc,
         ExplicitFileType |-> options.ExplicitFileType,
         SourceTree |-> IF options.SourceTree # "" THEN options.SourceTree
                        ELSE IF product THEN DEFAULT_PRODUCT_SOURCETREE
                        ELSE detectSourcetree(options.CustomFramework, ftype),
         DefaultEncoding |-> IF product THEN DEFAULT_ENCODING_VALUE ELSE enc,
         IncludeInIndex |-> 0,
         Settings |-> newPbxFileSettings(options),
         Uuid |-> "",
         Target |-> "",
         Plugin |-> FALSE]])])])])

longComment(pbxfile) == pbxfile.Basename \o " in " \o pbxfile.Group

pbxBuildFileObj(pbxfile) ==
    Bind([obj \in {NewObjectWithData(<<
            NewObjectItem("isa", StrV("PBXBuildFile")),
            NewObjectItem("fileRef", StrV(pbxfile.FileRef)),
            NewObjectItem(toCommentKey("fileRef"), StrV(pbxfile.Basename))>>)} |->
        IF ~IsEmpty(pbxfile.Settings)
        THEN Set(obj, "settings", ObjV(pbxfile.Settings))
        ELSE obj])

newPbxFileReferenceObj(pbxfile) ==
    NewObjectWithData(<<
        NewObjectItem("isa", StrV("PBXFileReference")),
        NewObjectItem("name", StrV(Quoted(pbxfile.Basename))),
        NewObjectItem("fileEncoding", IntV(pbxfile.FileEncoding)),
        NewObjectItem("lastKnownFileType", StrV(pbxfile.LastKnownFileType)),
        NewObjectItem("path", StrV(Quoted(pbxfile.Path))),
        NewObjectItem("sourceTree", StrV(pbxfile.SourceTree)),
        NewObjectItem("explicitFileType", StrV(pbxfile.ExplicitFileType)),
        NewObjectItem("includeInIndex", IntV(pbxfile.IncludeInIndex))>>)

pbxGroupChild(pbxfile) == CommentValue(pbxfile.FileRef, pbxfile.Basename)

pbxBuildPhaseObj(pbxfile) ==
    NewObjectWithData(<<NewObjectItem("value", StrV(pbxfile.Uuid)),
                        NewObjectItem("comment", StrV(longComment(pbxfile)))>>)

pbxFileReferenceComment(pbxfile) ==
    IF pbxfile.Basename # "" THEN pbxfile.Basename
    ELSE FilepathBase(pbxfile.Path)

(***************************************************************************)
(* PbxProject.  proj holds the fields of the struct that the operations    *)
(* read or write:                                                          *)
(*   project      topProjectSection, the tree (it holds "objects", the     *)
(*                isa buckets, which the cached section fields point into) *)
(*   pbxGroupSection   the object initSections read from the top level     *)
(*   uuids        the live UUID set                                        *)
(*   pbxFileNoCommentReferences   the path index getFile reads             *)
(*   panic        a run-time panic has ended the program                   *)
(* and, for the random source: rnd, the position in the stream of          *)
(* uuid.NewV4 values, and gen, the log of what generateUuid returned.      *)
(***************************************************************************)
HexLower == "0123456789abcdef"

\* The k-th value of the random source, in the form uuid.UUID.String()
\* gives a version-4 UUID.
NewV4(k) ==
    "0000" \o Char(HexLower, ((k \div 16) % 16) + 1)
    \o Char(HexLower, (k % 16) + 1)
    \o "00-0000-4000-8000-00000000beef"

RECURSIVE ReplaceAll(_, _, _)
ReplaceAll(s, old, new) ==
    IF s = "" THEN ""
    ELSE (IF Char(s, 1) = old THEN new ELSE Char(s, 1))
         \o ReplaceAll(SubSeq(s, 2, Len(s)), old, new)

RECURSIVE ToUpper(_)
ToUpper(s) ==
    IF s = "" THEN ""
    ELSE LET c == Char(s, 1)
             at == {i \in 1..Len(HexLower) : Char(HexLower, i) = c}
         IN (IF at = {} THEN c ELSE Char("0123456789ABCDEF", CHOOSE i \in at : TRUE))
            \o ToUpper(SubSeq(s, 2, Len(s)))

UuidOf(k) == ToUpper(SubSeq(ReplaceAll(NewV4(k), "-", ""), 1, 24))

\* generateUuid without the retry: the value drawn is returned whether or
\* not the live set holds it.
generateUuidNoRetry(p) ==
    [p EXCEPT !.rnd = @ + 1,
              !.uuids = @ \cup {UuidOf(p.rnd)},
              !.gen = Append(@, [uuid |-> UuidOf(p.rnd),
                                 found |-> UuidOf(p.rnd) \in p.uuids])]

RECURSIVE generateUuid(_)
generateUuid(p) ==
    LET newUUID == UuidOf(p.rnd)
        found == newUUID \in p.uuids
    IN IF found
       THEN generateUuid([p EXCEPT !.rnd = @ + 1])
       ELSE [p EXCEPT !.rnd = @ + 1,
                      !.uuids = @ \cup {newUUID},
                      !.gen = Append(@, [uuid |-> newUUID, found |-> found])]

\* The value the last generateUuid call returned.
LastUuid(p) == p.gen[Len(p.gen)].uuid

Section(p, name) == GetObject(GetObject(p.project, "objects"), name)

\* A run-time panic ends the operation where it happens: what was changed
\* before stays changed, nothing after it runs.
Panic(p) == [p EXCEPT !.panic = TRUE]

\* section.Set(key, val) on the bucket name of the tree.
SectionSet(p, name, key, val) ==
    IF p.panic THEN p
    ELSE LET sec == Section(p, name)
             q == [p EXCEPT !.project =
                       UpdAt(@, <<"objects", name>>, Set(sec, key, val))]
         IN IF SetPanics(sec, key) THEN Panic(q) ELSE q

\* section.Delete(key) on the bucket name of the tree.
SectionDelete(p, name, key) ==
    IF p.panic THEN p
    ELSE LET sec == Section(p, name)
         IN IF DeletePanics(sec, key) THEN Panic(p)
            ELSE [p EXCEPT !.project =
                      UpdAt(@, <<"objects", name>>, Delete(sec, key))]

\* The tree after initSections: XCVersionGroup and XCConfigurationList get
\* an empty bucket when they have none.
initSectionsObjects(objects) ==
    LET o1 == IF IsEmpty(GetObject(objects, "XCVersionGroup"))
              THEN Set(objects, "XCVersionGroup", ObjV(NewSliceMap))
              ELSE objects
    IN IF IsEmpty(GetObject(o1, "XCConfigurationList"))
       THEN Set(o1, "XCConfigurationList", ObjV(NewSliceMap))
       ELSE o1

buildExistUuids(objects) ==
    UNION {{s.data.v.sl[j].key : j \in {n \in 1..Len(s.data.v.sl) :
                                          /\ s.data.v.sl[n].data # Nil
                                          /\ ~isCommentKey(s.data.v.sl[n].key)
                                          /\ Len(s.data.v.sl[n].key) = 24}}
           : s \in {objects.sl[i] : i \in {n \in 1..Len(objects.sl) :
                                               objects.sl[n].data # Nil}}}

\* The project after NewPbxProject and Parse of a file whose parse result
\* is top.
Loaded(top) ==
    LET t == UpdAt(top, <<"objects">>,
                   initSectionsObjects(GetObject(top, "objects")))
    IN [project |-> t,
        pbxGroupSection |-> GetObject(t, "PBXGroup"),
        uuids |-> buildExistUuids(GetObject(t, "objects")),
        pbxFileNoCommentReferences |-> [k \in {} |-> 0],
        rnd |-> 0,
        gen |-> <<>>,
        panic |-> FALSE]

(***************************************************************************)
(* The loaded file: what the parser returns for a small project with one   *)
(* target, two build configurations, a source file, a group, a variant     *)
(* group and the Sources and Frameworks phases.  The parser gives strings  *)
(* as written (quotes kept), integers as int64, a commented array entry as *)
(* an Object {value, comment}, `K /* c */ = V;` as the keys K, K_comment.  *)
(* fsp is how FRAMEWORK_SEARCH_PATHS of the Debug configuration is         *)
(* written ("empty": `buildSettings = { };`), pn2 how PRODUCT_NAME of the  *)
(* Release configuration is.                                               *)
(***************************************************************************)
Int64V(n) == [t |-> "int64", v |-> n]

Entry(value, comment) == ObjV(ToObject(CommentValue(value, comment)))

Rec(items) == ObjV(NewObjectWithData(items))

\* The record keys of the loaded file.
LoadedUuid ==
    [Project |-> UuidOf(1),
     BuildFile |-> UuidOf(16),
     FileRef |-> UuidOf(32),
     FrameworksPhase |-> UuidOf(48),
     MainGroup |-> UuidOf(64),
     VariantGroup |-> UuidOf(69),
     Target |-> UuidOf(80),
     SourcesPhase |-> UuidOf(96),
     Debug |-> UuidOf(112),
     Release |-> UuidOf(113),
     ConfigList |-> UuidOf(128)]

INHERITED == "\"$(inherited)\""

DebugSettings(fsp) ==
    LET base == <<NewObjectItem("PRODUCT_NAME", StrV("App"))>>
    IN CASE fsp = "empty" -> <<>>
         [] fsp = "absent" -> base
         [] fsp = "inherited" ->
              Append(base, NewObjectItem("FRAMEWORK_SEARCH_PATHS", StrV(INHERITED)))
         [] fsp = "list" ->
              Append(base, NewObjectItem("FRAMEWORK_SEARCH_PATHS",
                                         ArrV(<<StrV(INHERITED)>>)))
         [] fsp = "string" ->
              Append(base, NewObjectItem("FRAMEWORK_SEARCH_PATHS",
                                         StrV("\"$(SRCROOT)/Libs\"")))

ReleaseSettings(pn2) ==
    CASE pn2 = "same" -> <<NewObjectItem("PRODUCT_NAME", StrV("\"App\""))>>
      [] pn2 = "other" -> <<NewObjectItem("PRODUCT_NAME", StrV("Other"))>>
      [] pn2 = "absent" -> <<NewObjectItem("SDKROOT", StrV("iphoneos"))>>

ParsedObjects(fsp, pn2) ==
    NewObjectWithData(<<
      NewObjectItem("PBXBuildFile", Rec(<<
        NewObjectItem(LoadedUuid.BuildFile, Rec(<<
          NewObjectItem("isa", StrV("PBXBuildFile")),
          NewObjectItem("fileRef", StrV(LoadedUuid.FileRef)),
          NewObjectItem("fileRef_comment", StrV("main.m"))>>)),
        NewObjectItem(toCommentKey(LoadedUuid.BuildFile), StrV("main.m in Sources"))>>)),
      NewObjectItem("PBXFileReference", Rec(<<
        NewObjectItem(LoadedUuid.FileRef, Rec(<<
          NewObjectItem("isa", StrV("PBXFileReference")),
          NewObjectItem("fileEncoding", Int64V(4)),
          NewObjectItem("lastKnownFileType", StrV("sourcecode.c.objc")),
          NewObjectItem("path", StrV("main.m")),
          NewObjectItem("sourceTree", StrV("\"<group>\""))>>)),
        NewObjectItem(toCommentKey(LoadedUuid.FileRef), StrV("main.m"))>>)),
      NewObjectItem("PBXFrameworksBuildPhase", Rec(<<
        NewObjectItem(LoadedUuid.FrameworksPhase, Rec(<<
          NewObjectItem("isa", StrV("PBXFrameworksBuildPhase")),
          NewObjectItem("files", ArrV(<<>>))>>)),
        NewObjectItem(toCommentKey(LoadedUuid.FrameworksPhase), StrV("Frameworks"))>>)),
      NewObjectItem("PBXGroup", Rec(<<
        NewObjectItem(LoadedUuid.MainGroup, Rec(<<
          NewObjectItem("isa", StrV("PBXGroup")),
          NewObjectItem("children", ArrV(<<
            Entry(LoadedUuid.FileRef, "main.m"),
            Entry(LoadedUuid.VariantGroup, "Localizable.strings")>>)),
          NewObjectItem("name", StrV("App")),
          NewObjectItem("sourceTree", StrV("\"<group>\""))>>)),
        NewObjectItem(toCommentKey(LoadedUuid.MainGroup), StrV("App"))>>)),
      NewObjectItem("PBXNativeTarget", Rec(<<
        NewObjectItem(LoadedUuid.Target, Rec(<<
          NewObjectItem("isa", StrV("PBXNativeTarget")),
          NewObjectItem("buildConfigurationList", StrV(LoadedUuid.ConfigList)),
          NewObjectItem("buildPhases", ArrV(<<
            Entry(LoadedUuid.SourcesPhase, "Sources"),
            Entry(LoadedUuid.FrameworksPhase, "Frameworks")>>)),
          NewObjectItem("name", StrV("App")),
          NewObjectItem("productType",
                        StrV("\"com.apple.product-type.application\""))>>)),
        NewObjectItem(toCommentKey(LoadedUuid.Target), StrV("App"))>>)),
      NewObjectItem("PBXProject", Rec(<<
        NewObjectItem(LoadedUuid.Project, Rec(<<
          NewObjectItem("isa", StrV("PBXProject")),
          NewObjectItem("buildConfigurationList", StrV(LoadedUuid.ConfigList)),
          NewObjectItem("mainGroup", StrV(LoadedUuid.MainGroup)),
          NewObjectItem("targets", ArrV(<<Entry(LoadedUuid.Target, "App")>>))>>)),
        NewObjectItem(toCommentKey(LoadedUuid.Project), StrV("Project object"))>>)),
      NewObjectItem("PBXSourcesBuildPhase", Rec(<<
        NewObjectItem(LoadedUuid.SourcesPhase, Rec(<<
          NewObjectItem("isa", StrV("PBXSourcesBuildPhase")),
          NewObjectItem("files", ArrV(<<
            Entry(LoadedUuid.BuildFile, "main.m in Sources")>>))>>)),
        NewObjectItem(toCommentKey(LoadedUuid.SourcesPhase), StrV("Sources"))>>)),
      NewObjectItem("PBXVariantGroup", Rec(<<
        NewObjectItem(LoadedUuid.VariantGroup, Rec(<<
          NewObjectItem("isa", StrV("PBXVariantGroup")),
          NewObjectItem("children", ArrV(<<>>)),
          NewObjectItem("name", StrV("Localizable.strings")),
          NewObjectItem("sourceTree", StrV("\"<group>\""))>>)),
        NewObjectItem(toCommentKey(LoadedUuid.VariantGroup),
                      StrV("Localizable.strings"))>>)),
      NewObjectItem("XCBuildConfiguration", Rec(<<
        NewObjectItem(LoadedUuid.Debug, Rec(<<
          NewObjectItem("isa", StrV("XCBuildConfiguration")),
          NewObjectItem("buildSettings", Rec(DebugSettings(fsp))),
          NewObjectItem("name", StrV("Debug"))>>)),
        NewObjectItem(toCommentKey(LoadedUuid.Debug), StrV("Debug")),
        NewObjectItem(LoadedUuid.Release, Rec(<<
          NewObjectItem("isa", StrV("XCBuildConfiguration")),
          NewObjectItem("buildSettings", Rec(ReleaseSettings(pn2))),
          NewObjectItem("name", StrV("Release"))>>)),
        NewObjectItem(toCommentKey(LoadedUuid.Release), StrV("Release"))>>)),
      NewObjectItem("XCConfigurationList", Rec(<<
        NewObjectItem(LoadedUuid.ConfigList, Rec(<<
          NewObjectItem("isa", StrV("XCConfigurationList")),
          NewObjectItem("buildConfigurations", ArrV(<<
            Entry(LoadedUuid.Debug, "Debug"), Entry(LoadedUuid.Release, "Release")>>)),
          NewObjectItem("defaultConfigurationIsVisible", Int64V(0)),
          NewObjectItem("defaultConfigurationName", StrV("Release"))>>)),
        NewObjectItem(toCommentKey(LoadedUuid.ConfigList),
                      StrV("Build configuration list for PBXProject"))>>))>>)

ParsedProject(fsp, pn2) ==
    NewObjectWithData(<<
      NewObjectItem("archiveVersion", Int64V(1)),
      NewObjectItem("classes", ObjV(NewSliceMap)),
      NewObjectItem("objectVersion", Int64V(46)),
      NewObjectItem("objects", ObjV(ParsedObjects(fsp, pn2))),
      NewObjectItem("rootObject", StrV(LoadedUuid.Project)),
      NewObjectItem("rootObject_comment", StrV("Project object"))>>)

(***************************************************************************)
(* Lookups and the helper additions and removals of the mutator.  Each     *)
(* takes the project and gives the project after it; on a project that     *)
(* has panicked nothing runs any more.                                     *)
(***************************************************************************)
getFile(p, filePath) ==
    IF filePath \in DOMAIN p.pbxFileNoCommentReferences
    THEN <<p.pbxFileNoCommentReferences[filePath]>>
    ELSE IF Quoted(filePath) \in DOMAIN p.pbxFileNoCommentReferences
         THEN <<p.pbxFileNoCommentReferences[Quoted(filePath)]>>
         ELSE <<>>

hasFile(p, filePath) == getFile(p, filePath) # <<>>

\* The key of the group named name in pbxGroupSection (found by its
\* comment entry) and the group object, empty when there is none.
pbxGroupByName(p, name) ==
    LET items == onlyCommentsItems(p.pbxGroupSection)
        i == FirstIdx(items, LAMBDA it : it.data = StrV(name))
    IN IF i = 0 THEN [key |-> "", obj |-> NewSliceMap]
       ELSE [key |-> fromCommentKey(items[i].key),
             obj |-> GetObject(p.pbxGroupSection, fromCommentKey(items[i].key))]

correctForPath(p, pbxfile, groupName) ==
    LET group == pbxGroupByName(p, groupName).obj
    IN IF ~IsEmpty(group) /\ GetString(group, "path") # ""
       THEN [pbxfile EXCEPT !.Path =
                IF \/ HasPrefix(@, groupName \o "/")
                   \/ HasPrefix(@, groupName \o "\\")
                THEN SubSeq(@, Len(groupName) + 2, Len(@))
                ELSE @]
       ELSE pbxfile

productName(p) ==
    LET items == nonCommentsItems(Section(p, "XCBuildConfiguration"))
        i == FirstIdx(items, LAMBDA it :
                 GetString(GetObject(it.data.v, "buildSettings"),
                           "PRODUCT_NAME") # "")
    IN IF i = 0 THEN ""
       ELSE unquoted(GetString(GetObject(items[i].data.v, "buildSettings"),
                               "PRODUCT_NAME"))

searchPathForFile(p, pbxfile) ==
    LET plugins == pbxGroupByName(p, "Plugins").obj
        pluginsPath == IF ~IsEmpty(plugins) THEN GetString(plugins, "path")
                       ELSE ""
        dir == FilepathDir(pbxfile.Path)
        fileDir == IF dir = "." THEN "" ELSE "/" \o dir
    IN IF pbxfile.Plugin /\ pluginsPath # ""
       THEN "\"\\\"$(SRCROOT)/" \o unquoted(pluginsPath) \o "\\\"\""
       ELSE IF pbxfile.CustomFramework /\ pbxfile.Dirname # ""
            THEN "\"\\\"" \o pbxfile.Dirname \o "\\\"\""
            ELSE "\"\\\"$(SRCROOT)/" \o productName(p) \o fileDir \o "\\\"\""

addToPbxBuildFileSection(p, pbxfile) ==
    SectionSet(SectionSet(p, "PBXBuildFile", pbxfile.Uuid,
                          ObjV(pbxBuildFileObj(pbxfile))),
               "PBXBuildFile", toCommentKey(pbxfile.Uuid),
               StrV(longComment(pbxfile)))

RECURSIVE removeFromPbxBuildFileSectionLoop(_, _, _)
removeFromPbxBuildFileSectionLoop(p, pbxfile, items) ==
    IF items = <<>> \/ p.panic THEN p
    ELSE LET it == Head(items)
             q == IF ~isObject(it.data) THEN Panic(p)
                  ELSE IF GetString(it.data.v, toCommentKey("FileRef"))
                          = pbxfile.Basename
                       THEN SectionDelete(
                              SectionDelete(p, "PBXBuildFile", it.key),
                              "PBXBuildFile", toCommentKey(it.key))
                       ELSE p
         IN removeFromPbxBuildFileSectionLoop(q, pbxfile, Tail(items))

removeFromPbxBuildFileSection(p, pbxfile) ==
    removeFromPbxBuildFileSectionLoop(p, pbxfile,
                                      nonCommentsItems(p.pbxGroupSection))

addToPbxFileReferenceSection(p, pbxfile) ==
    SectionSet(SectionSet(p, "PBXFileReference", pbxfile.FileRef,
                          ObjV(newPbxFileReferenceObj(pbxfile))),
               "PBXFileReference", toCommentKey(pbxfile.FileRef),
               StrV(pbxFileReferenceComment(pbxfile)))

removeFromPbxFileReferenceSection(p, pbxfile) ==
    IF p.panic THEN p
    ELSE LET refObjName == Quoted(pbxfile.Basename)
             refObjPath == Quoted(pbxfile.Path)
             items == nonCommentsItems(Section(p, "PBXFileReference"))
             i == FirstIdx(items, LAMBDA it :
                    /\ isObject(it.data)
                    /\ LET name == GetString(it.data.v, "name")
                           path == GetString(it.data.v, "path")
                       IN \/ name = refObjName
                          \/ Quoted(name) = refObjName
                          \/ path = refObjPath
                          \/ Quoted(path) = refObjPath)
         IN IF i = 0 THEN p
            ELSE SectionDelete(
                   SectionDelete(p, "PBXFileReference", items[i].key),
                   "PBXFileReference",
                   toCommentKey(GetString(items[i].data.v, "FileRef")))

\* The children of the new group: for each path the file reference found
\* by path, else a new file reference and build file.  sec is the
\* PBXFileReference bucket read before the loop.
HasRef(sec, path) ==
    \E i \in 1..Len(onlyCommentsItems(sec)) :
        LET it == onlyCommentsItems(sec)[i]
        IN /\ it.data # StrV("")
           /\ GetString(GetObject(sec, fromCommentKey(it.key)), "path") # ""
           /\ GetString(GetObject(sec, fromCommentKey(it.key)), "path") = path

RefOf(sec, path) ==
    LET items == onlyCommentsItems(sec)
        at == {i \in 1..Len(items) :
                 /\ items[i].data # StrV("")
                 /\ GetString(GetObject(sec, fromCommentKey(items[i].key)),
                              "path") = path}
        last == CHOOSE i \in at : \A j \in at : j <= i
    IN CommentValue(fromCommentKey(items[last].key), items[last].data.v)

\* A path with no file reference: a new PbxFile gets a build file UUID and a
\* file reference UUID, and is added to both sections.
AddPbxGroupNewFile(p, filePath) ==
    Bind([p1 \in {generateUuid(p)} |->
    Bind([p2 \in {generateUuid(p1)} |->
    Bind([pbxfile \in {[newPbxFile(filePath, newPbxFileOptions)
          EXCEPT !.Uuid = LastUuid(p1), !.FileRef = LastUuid(p2)]} |->
        [p |-> addToPbxBuildFileSection(
                 addToPbxFileReferenceSection(p2, pbxfile), pbxfile),
         child |-> CommentValue(pbxfile.FileRef, pbxfile.Basename)]])])])

RECURSIVE AddPbxGroupFiles(_, _, _, _)
AddPbxGroupFiles(p, pbxGroup, sec, filePathsArray) ==
    IF filePathsArray = <<>> \/ p.panic THEN [p |-> p, group |-> pbxGroup]
    ELSE Bind([filePath \in {Head(filePathsArray)} |->
         IF HasRef(sec, filePath) \/ HasRef(sec, Quoted(filePath))
         THEN AddPbxGroupFiles(p,
                addToObjectList(pbxGroup, "children",
                  ObjV(ToObject(RefOf(sec, IF HasRef(sec, filePath)
                                           THEN filePath
                                           ELSE Quoted(filePath))))),
                sec, Tail(filePathsArray))
         ELSE IF newPbxFilePanics(filePath, newPbxFileOptions)
         THEN [p |-> Panic(p), group |-> pbxGroup]
         ELSE Bind([r \in {AddPbxGroupNewFile(p, filePath)} |->
                  AddPbxGroupFiles(r.p,
                    addToObjectList(pbxGroup, "children",
                                    ObjV(ToObject(r.child))),
                    sec, Tail(filePathsArray))])])

AddPbxGroup(p, filePathsArray, name, path, sourceTree) ==
    IF p.panic THEN p
    ELSE Bind([p1 \in {generateUuid(p)} |->
         Bind([g0 \in {NewObjectWithData(<<
                NewObjectItem("isa", StrV("PBXGroup")),
                NewObjectItem("children", ArrV(<<>>)),
                NewObjectItem("name", StrV(name)),
                NewObjectItem("sourceTree", StrV(sourceTree))>>)} |->
         Bind([g1 \in {IF path # "" THEN Set(g0, "path", StrV(path)) ELSE g0} |->
         Bind([g2 \in {IF sourceTree = ""
              THEN Set(g1, "sourceTree", StrV("\"<group>\"")) ELSE g1} |->
         Bind([r \in {AddPbxGroupFiles(p1, g2, Section(p1, "PBXFileReference"),
                               filePathsArray)} |->
             IF ~r.p.panic /\ ~IsEmpty(r.p.pbxGroupSection)
             THEN [r.p EXCEPT !.pbxGroupSection =
                      Set(Set(@, LastUuid(p1), ObjV(r.group)),
                          toCommentKey(LastUuid(p1)), StrV(name))]
             ELSE r.p])])])])])

GroupSectionDelete(p, key) ==
    IF p.panic THEN p
    ELSE IF DeletePanics(p.pbxGroupSection, key) THEN Panic(p)
    ELSE [p EXCEPT !.pbxGroupSection = Delete(@, key)]

RemovePbxGroup(p, groupName) ==
    LET items == onlyCommentsItems(p.pbxGroupSection)
        i == FirstIdx(items, LAMBDA it : it.data = StrV(groupName))
    IN IF i = 0 THEN p
       ELSE GroupSectionDelete(GroupSectionDelete(p, items[i].key),
                               fromCommentKey(items[i].key))

addToPbxGroup(p, pbxfile, groupName) ==
    IF p.panic THEN p
    ELSE Bind([g \in {pbxGroupByName(p, groupName)} |->
         IF IsEmpty(g.obj)
         THEN AddPbxGroup(p, <<pbxfile.Path>>, groupName, "", "")
         ELSE IF addToObjectListPanics(g.obj, "children") THEN Panic(p)
         ELSE [p EXCEPT !.pbxGroupSection =
                  Mutate(@, g.key,
                    ObjV(addToObjectList(g.obj, "children",
                                         pbxGroupChild(pbxfile))))]])

removeFromPbxGroup(p, pbxfile, groupName) ==
    IF p.panic THEN p
    ELSE LET Cond(childObj) ==
                 /\ GetString(childObj, "value") = pbxfile.FileRef
                 /\ GetString(childObj, "comment") = pbxfile.Basename
         IN Bind([g \in {pbxGroupByName(p, groupName)} |->
            IF IsEmpty(g.obj) THEN p
            ELSE IF removeFromObjectListPanics(g.obj, "children", Cond)
            THEN Panic(p)
            ELSE [p EXCEPT !.pbxGroupSection =
                     Mutate(@, g.key,
                       ObjV(removeFromObjectList(g.obj, "children", Cond)))]])

\* buildPhase: the comment key of the phase named group among the build
\* phases of target, "" when there is none.
buildPhase(p, group, target) ==
    LET nativeTarget == GetObject(Section(p, "PBXNativeTarget"), target)
        buildPhases == ForceGet(nativeTarget, "buildPhases")
        i == IF isArray(buildPhases)
             THEN FirstIdx(buildPhases.v, LAMBDA e :
                      isObject(e) /\ GetString(e.v, "comment") = group)
             ELSE 0
    IN IF target = "" \/ IsEmpty(nativeTarget) \/ buildPhases = Nil \/ i = 0
       THEN ""
       ELSE toCommentKey(GetString(buildPhases.v[i].v, "value"))

\* buildPhaseObject: the key in bucket name of the phase it selects, with
\* found = FALSE when it returns a fresh empty object.
buildPhaseObject(p, name, group, target) ==
    Bind([section \in {Section(p, name)} |->
    Bind([bp \in {buildPhase(p, group, target)} |->
    Bind([items \in {onlyCommentsItems(section)} |->
    Bind([i \in {FirstIdx(items, LAMBDA it :
             (bp = "" \/ bp = it.key) /\ it.data = StrV(group))} |->
        IF IsEmpty(section) \/ i = 0 THEN [found |-> FALSE, key |-> ""]
        ELSE [found |-> TRUE, key |-> fromCommentKey(items[i].key)]])])])])

\* addToPbx<Phase>BuildPhase and removeFromPbx<Phase>BuildPhase: name is the
\* isa bucket and group the phase comment that <Phase> stands for.
addToPbxBuildPhase(p, name, group, pbxfile) ==
    IF p.panic THEN p
    ELSE Bind([ph \in {buildPhaseObject(p, name, group, pbxfile.Target)} |->
         Bind([source \in {GetObject(Section(p, name), ph.key)} |->
             IF ~ph.found THEN p
             ELSE IF addToObjectListPanics(source, "files") THEN Panic(p)
             ELSE [p EXCEPT !.project =
                      UpdAt(@, <<"objects", name, ph.key>>,
                            addToObjectList(source, "files",
                                            ObjV(pbxBuildPhaseObj(pbxfile))))]])])

removeFromPbxBuildPhase(p, name, group, pbxfile) ==
    IF p.panic THEN p
    ELSE LET Cond(file) == GetString(file, "comment") = longComment(pbxfile)
         IN Bind([ph \in {buildPhaseObject(p, name, group, pbxfile.Target)} |->
            Bind([source \in {GetObject(Section(p, name), ph.key)} |->
                IF ~ph.found THEN p
                ELSE IF removeFromObjectListPanics(source, "files", Cond)
                THEN Panic(p)
                ELSE [p EXCEPT !.project =
                         UpdAt(@, <<"objects", name, ph.key>>,
                               removeFromObjectList(source, "files", Cond))]])])

\* The keys of the XCBuildConfiguration records, in iteration order.
ConfigurationKeys(p) ==
    LET items == nonCommentsItems(Section(p, "XCBuildConfiguration"))
    IN [i \in 1..Len(items) |-> items[i].key]

BuildSettings(p, key) ==
    GetObject(GetObject(Section(p, "XCBuildConfiguration"), key),
              "buildSettings")

\* The gate of addToSearchPaths and removeFromSearchPaths.
ProductNameMatches(p, key) ==
    unquoted(GetString(BuildSettings(p, key), "PRODUCT_NAME")) = productName(p)

WithBuildSettings(p, key, buildSettings) ==
    [p EXCEPT !.project =
        UpdAt(@, <<"objects", "XCBuildConfiguration", key, "buildSettings">>,
              buildSettings)]

RECURSIVE addToSearchPathsLoop(_, _, _, _)
addToSearchPathsLoop(p, searchPath, pbxfile, keys) ==
    IF keys = <<>> \/ p.panic THEN p
    ELSE Bind([buildSettings \in {BuildSettings(p, Head(keys))} |->
         Bind([promoted \in {IF ForceGet(buildSettings, searchPath) = StrV(INHERITED)
              THEN Set(buildSettings, searchPath, ArrV(<<StrV(INHERITED)>>))
              ELSE buildSettings} |->
         Bind([next \in {IF ~ProductNameMatches(p, Head(keys)) THEN p
              ELSE IF addToObjectListPanics(promoted, searchPath)
              THEN Panic(WithBuildSettings(p, Head(keys), promoted))
              ELSE WithBuildSettings(p, Head(keys),
                     addToObjectList(promoted, searchPath,
                                     StrV(searchPathForFile(p, pbxfile))))} |->
             addToSearchPathsLoop(next, searchPath, pbxfile, Tail(keys))])])])

addToSearchPaths(p, searchPath, pbxfile) ==
    addToSearchPathsLoop(p, searchPath, pbxfile, ConfigurationKeys(p))

RECURSIVE removeFromSearchPathsLoop(_, _, _, _)
removeFromSearchPathsLoop(p, searchPath, new_path, keys) ==
    IF keys = <<>> \/ p.panic THEN p
    ELSE Bind([buildSettings \in {BuildSettings(p, Head(keys))} |->
         Bind([next \in {IF ~ProductNameMatches(p, Head(keys)) THEN p
              ELSE IF addToObjectListOnlyNotExistPanics(
                         buildSettings, searchPath, StrV(new_path))
              THEN Panic(p)
              ELSE WithBuildSettings(p, Head(keys),
                     addToObjectListOnlyNotExist(buildSettings, searchPath,
                                                 StrV(new_path)))} |->
             removeFromSearchPathsLoop(next, searchPath, new_path, Tail(keys))])])

removeFromSearchPaths(p, searchPath, pbxfile) ==
    IF p.panic THEN p
    ELSE removeFromSearchPathsLoop(p, searchPath,
                                   searchPathForFile(p, pbxfile),
                                   ConfigurationKeys(p))

getPBXGroupByKeyAndType(p, key, groupType) ==
    GetObject(Section(p, groupType), key)

\* addToPbxGroupType appends the CommentValue struct itself.
addToPbxGroupType(p, childGroup, groupKey, groupType) ==
    IF p.panic THEN p
    ELSE LET group == getPBXGroupByKeyAndType(p, groupKey, groupType)
             children == ForceGet(group, "children")
         IN IF IsEmpty(group) \/ children = Nil THEN p
            ELSE IF ~isArray(children) THEN Panic(p)
            ELSE [p EXCEPT !.project =
                     UpdAt(@, <<"objects", groupType, groupKey>>,
                           Set(group, "children",
                               ArrV(Append(children.v, childGroup))))]

removeFromPbxGroupAndType(p, pbxfile, groupKey, groupType) ==
    IF p.panic THEN p
    ELSE LET group == getPBXGroupByKeyAndType(p, groupKey, groupType)
             children == ForceGet(group, "children")
             hit == FirstIdx(children.v, LAMBDA e :
                       /\ isObject(e)
                       /\ GetString(e.v, "value") = pbxfile.FileRef
                       /\ GetString(e.v, "comment") = pbxfile.Basename)
             bad == FirstIdx(children.v, LAMBDA e : ~isObject(e))
         IN IF IsEmpty(group) THEN p
            ELSE IF ~isArray(children) THEN Panic(p)
            ELSE IF bad # 0 /\ (hit = 0 \/ bad < hit) THEN Panic(p)
            ELSE IF hit = 0 THEN p
            ELSE [p EXCEPT !.project =
                     UpdAt(@, <<"objects", groupType, groupKey>>,
                           Set(group, "children",
                               ArrV(RemoveAt(children.v, hit))))]

(***************************************************************************)
(* The operations.  Each gives the project after the call and whether the  *)
(* call returned an error.                                                 *)
(***************************************************************************)
\* Stands for the nil *PbxFile of an error return; its fields are not read.
NoFile == [Basename |-> "", FileRef |-> "", Path |-> "", Uuid |-> "",
           Target |-> ""]

addPluginFile(p, filePath, options) ==
    IF newPbxFilePanics(filePath, options)
    THEN [p |-> Panic(p), pbxfile |-> NoFile, err |-> FALSE]
    ELSE Bind([f0 \in {correctForPath(p, [newPbxFile(filePath, options)
                                 EXCEPT !.Plugin = TRUE], "Plugins")} |->
         IF hasFile(p, f0.Path)
         THEN [p |-> p, pbxfile |-> NoFile, err |-> TRUE]
         ELSE Bind([p1 \in {generateUuid(p)} |->
              Bind([f1 \in {[f0 EXCEPT !.FileRef = LastUuid(p1)]} |->
                  [p |-> addToPbxGroup(addToPbxFileReferenceSection(p1, f1),
                                       f1, "Plugins"),
                   pbxfile |-> f1, err |-> FALSE]])])])

removePluginFile(p, filePath, options) ==
    IF newPbxFilePanics(filePath, options)
    THEN [p |-> Panic(p), pbxfile |-> NoFile]
    ELSE Bind([f \in {correctForPath(p, [newPbxFile(filePath, options)
                                 EXCEPT !.Plugin = TRUE], "Plugins")} |->
         [p |-> removeFromPbxGroup(removeFromPbxFileReferenceSection(p, f),
                                   f, "Plugins"),
          pbxfile |-> f]])

addFile(p, path, group, opts) ==
    IF newPbxFilePanics(path, opts)
    THEN [p |-> Panic(p), pbxfile |-> NoFile, err |-> FALSE]
    ELSE Bind([f0 \in {newPbxFile(path, opts)} |->
         IF hasFile(p, f0.Path)
         THEN [p |-> p, pbxfile |-> NoFile, err |-> TRUE]
         ELSE Bind([p1 \in {generateUuid(p)} |->
              Bind([f1 \in {[f0 EXCEPT !.FileRef = LastUuid(p1)]} |->
              Bind([p2 \in {addToPbxFileReferenceSection(p1, f1)} |->
                  [p |-> IF ~IsEmpty(getPBXGroupByKeyAndType(p2, group,
                                                             "PBXGroup"))
                         THEN addToPbxGroup(p2, f1, group)
                         ELSE IF ~IsEmpty(getPBXGroupByKeyAndType(
                                            p2, group, "PBXVariantGroup"))
                         THEN addToPbxGroupType(p2, pbxGroupChild(f1), group,
                                                "PBXVariantGroup")
                         ELSE p2,
                   pbxfile |-> f1, err |-> FALSE]])])])])

removeFile(p, path, group, opt) ==
    IF newPbxFilePanics(path, opt)
    THEN [p |-> Panic(p), pbxfile |-> NoFile]
    ELSE Bind([f \in {newPbxFile(path, opt)} |->
         Bind([p1 \in {removeFromPbxFileReferenceSection(p, f)} |->
             [p |-> IF ~IsEmpty(getPBXGroupByKeyAndType(p1, group, "PBXGroup"))
                    THEN removeFromPbxGroup(p1, f, group)
                    ELSE IF ~IsEmpty(getPBXGroupByKeyAndType(
                                       p1, group, "PBXVariantGroup"))
                    THEN removeFromPbxGroupAndType(p1, f, group,
                                                   "PBXVariantGroup")
                    ELSE p1,
              pbxfile |-> f]])])

AddSourceFile(p, filePath, options, group) ==
    Bind([r \in {IF group # "" THEN addFile(p, filePath, group, options)
         ELSE addPluginFile(p, filePath, options)} |->
        IF r.err \/ r.p.panic THEN [p |-> r.p, err |-> r.err]
        ELSE Bind([p1 \in {generateUuid(r.p)} |->
             Bind([f \in {[r.pbxfile EXCEPT !.Target = options.Target,
                                    !.Uuid = LastUuid(p1)]} |->
                 [p |-> addToPbxBuildPhase(addToPbxBuildFileSection(p1, f),
                          "PBXSourcesBuildPhase", "Sources", f),
                  err |-> FALSE]])])])

RemoveSourceFile(p, filePath, options, group) ==
    Bind([r \in {IF group # "" THEN removeFile(p, filePath, group, options)
         ELSE removePluginFile(p, filePath, options)} |->
    Bind([f \in {[r.pbxfile EXCEPT !.Target = options.Target]} |->
        [p |-> removeFromPbxBuildPhase(removeFromPbxBuildFileSection(r.p, f),
                 "PBXSourcesBuildPhase", "Sources", f),
         err |-> FALSE]])])

\* The embedded copy of a custom framework: a second PbxFile with the same
\* file reference goes to the build files and the Embed Frameworks phase.
AddFrameworkEmbed(p5, filePath, opts0, fileRef) ==
    Bind([p6 \in {generateUuid(p5)} |->
    Bind([e \in {[newPbxFile(filePath, [opts0 EXCEPT !.Embed = TRUE])
          EXCEPT !.Uuid = LastUuid(p6), !.FileRef = fileRef]} |->
        addToPbxBuildPhase(addToPbxBuildFileSection(p6, e),
                           "PBXCopyFilesBuildPhase", "Embed Frameworks", e)])])

AddFramework(p, filePath, options) ==
    Bind([opts0 \in {[options EXCEPT !.Embed = FALSE]} |->
    IF newPbxFilePanics(filePath, opts0)
    THEN [p |-> Panic(p), err |-> FALSE]
    ELSE Bind([p1 \in {generateUuid(p)} |->
         Bind([p2 \in {generateUuid(p1)} |->
         Bind([f \in {[newPbxFile(filePath, opts0) EXCEPT !.Uuid = LastUuid(p1),
                                                  !.FileRef = LastUuid(p2),
                                                  !.Target = options.Target]} |->
         IF hasFile(p2, f.Path) THEN [p |-> p2, err |-> TRUE]
         ELSE Bind([p3 \in {addToPbxGroup(
                     addToPbxFileReferenceSection(
                       addToPbxBuildFileSection(p2, f), f),
                     f, "Frameworks")} |->
              Bind([p4 \in {IF options.Link
                   THEN addToPbxBuildPhase(p3, "PBXFrameworksBuildPhase",
                                           "Frameworks", f)
                   ELSE p3} |->
              IF ~options.CustomFramework THEN [p |-> p4, err |-> FALSE]
              ELSE Bind([p5 \in {addToSearchPaths(p4, "FRAMEWORK_SEARCH_PATHS", f)} |->
                   IF ~options.Embed \/ p5.panic THEN [p |-> p5, err |-> FALSE]
                   ELSE [p |-> AddFrameworkEmbed(p5, filePath, opts0, f.FileRef),
                         err |-> FALSE]])])])])])])])

RemoveFramework(p, filePath, options) ==
    Bind([opts0 \in {[options EXCEPT !.Embed = FALSE]} |->
    IF newPbxFilePanics(filePath, opts0)
    THEN [p |-> Panic(p), err |-> FALSE]
    ELSE Bind([f \in {[newPbxFile(filePath, opts0) EXCEPT !.Target = options.Target]} |->
         Bind([p1 \in {removeFromPbxBuildPhase(
                removeFromPbxGroup(
                  removeFromPbxFileReferenceSection(
                    removeFromPbxBuildFileSection(p, f), f),
                  f, "Frameworks"),
                "PBXFrameworksBuildPhase", "Frameworks", f)} |->
         Bind([p2 \in {IF options.CustomFramework
              THEN removeFromSearchPaths(p1, "FRAMEWORK_SEARCH_PATHS", f)
              ELSE p1} |->
         Bind([e \in {[newPbxFile(filePath, [opts0 EXCEPT !.Embed = TRUE])
               EXCEPT !.FileRef = f.FileRef]} |->
             [p |-> removeFromPbxBuildPhase(
                      removeFromPbxBuildFileSection(p2, e),
                      "PBXCopyFilesBuildPhase", "Embed Frameworks", e),
              err |-> FALSE]])])])])])

AddCopyfile(p, filePath, options) ==
    IF newPbxFilePanics(filePath, options)
    THEN [p |-> Panic(p), err |-> FALSE]
    ELSE Bind([f0 \in {newPbxFile(filePath, options)} |->
         Bind([f1 \in {IF hasFile(p, f0.Path) THEN getFile(p, f0.Path)[1] ELSE f0} |->
         Bind([p1 \in {generateUuid(p)} |->
         Bind([f \in {[f1 EXCEPT !.Uuid = LastUuid(p1), !.FileRef = LastUuid(p1),
                         !.Target = options.Target]} |->
             [p |-> addToPbxBuildPhase(
                      addToPbxFileReferenceSection(
                        addToPbxBuildFileSection(p1, f), f),
                      "PBXCopyFilesBuildPhase", "Copy Files", f),
              err |-> FALSE]])])])])

(***************************************************************************)
(* Targets: the first project and target, target dependencies, build      *)
(* phases and AddTarget.                                                   *)
(***************************************************************************)
PRODUCTTYPE_BY_TARGETTYPE ==
    [application |-> "com.apple.product-type.application",
     app_extension |-> "com.apple.product-type.app-extension",
     bundle |-> "com.apple.product-type.bundle",
     command_line_tool |-> "com.apple.product-type.tool",
     dynamic_library |-> "com.apple.product-type.library.dynamic",
     framework |-> "com.apple.product-type.framework",
     static_library |-> "com.apple.product-type.library.static",
     unit_test_bundle |-> "com.apple.product-type.bundle.unit-test",
     watch_app |-> "com.apple.product-type.application.watchapp",
     watch2_app |-> "com.apple.product-type.application.watchapp2",
     watch_extension |-> "com.apple.product-type.watchkit-extension",
     watch2_extension |-> "com.apple.product-type.watchkit2-extension"]

producttypeForTargettype(targetType) ==
    Lookup(PRODUCTTYPE_BY_TARGETTYPE, targetType, "")

FILETYPE_BY_PRODUCTTYPE ==
    ("com.apple.product-type.application" :> "wrapper.application")
    @@ ("com.apple.product-type.app-extension" :> "wrapper.app-extension")
    @@ ("com.apple.product-type.bundle" :> "wrapper.plug-in")
    @@ ("com.apple.product-type.tool" :> "compiled.mach-o.dylib")
    @@ ("com.apple.product-type.library.dynamic" :> "compiled.mach-o.dylib")
    @@ ("com.apple.product-type.framework" :> "wrapper.framework")
    @@ ("com.apple.product-type.library.static" :> "archive.ar")
    @@ ("com.apple.product-type.bundle.unit-test" :> "wrapper.cfbundle")
    @@ ("com.apple.product-type.application.watchapp" :> "wrapper.application")
    @@ ("com.apple.product-type.application.watchapp2" :> "wrapper.application")
    @@ ("com.apple.product-type.watchkit-extension" :> "wrapper.app-extension")
    @@ ("com.apple.product-type.watchkit2-extension" :> "wrapper.app-extension")

filetypeForProducttype(productType) ==
    Lookup(FILETYPE_BY_PRODUCTTYPE, productType, "")

\* o.GetObject(key) is value.(Object) for a key that is present: it fails
\* on a value that is no Object.
GetObjectPanics(m, key) == Has(m, key) /\ ~isObject(ForceGet(m, key))

\* getFirstProject: the first record of the PBXProject bucket with its key;
\* without a record the key is "" and the Object holds no mapping (none).
\* value.(pegparser.Object) fails on a first entry that is no Object.
getFirstProjectPanics(p) ==
    Bind([items \in {nonCommentsItems(Section(p, "PBXProject"))} |->
        items # <<>> /\ ~isObject(items[1].data)])

getFirstProject(p) ==
    Bind([items \in {nonCommentsItems(Section(p, "PBXProject"))} |->
        IF items = <<>> \/ ~isObject(items[1].data)
        THEN [UUID |-> "", Object |-> NewSliceMap, none |-> TRUE]
        ELSE [UUID |-> items[1].key, Object |-> items[1].data.v,
              none |-> FALSE]])

\* getFirstTarget reads targets[0] of the first project as an Object: it
\* fails without a project, when targets is no []interface{} or is empty,
\* and when its first entry is no Object.
getFirstTargetPanics(p) ==
    Bind([project \in {getFirstProject(p)} |->
    Bind([targets \in {ForceGet(project.Object, "targets")} |->
        \/ getFirstProjectPanics(p)
        \/ project.none
        \/ ~isArray(targets)
        \/ targets.v = <<>>
        \/ ~isObject(targets.v[1])
        \/ GetObjectPanics(Section(p, "PBXNativeTarget"),
                           GetString(targets.v[1].v, "value"))])])

getFirstTarget(p) ==
    Bind([firstTargetUuid \in {GetString(ForceGet(getFirstProject(p).Object, "targets").v[1].v,
                   "value")} |->
        [UUID |-> firstTargetUuid,
         Object |-> GetObject(Section(p, "PBXNativeTarget"), firstTargetUuid)]])

\* getTarget reads targets of the first project with GetObject, which
\* fails on the []interface{} that a file gives for targets; without the
\* key there is nothing to visit and the result has the UUID "".
getTargetPanics(p) ==
    \/ getFirstProjectPanics(p)
    \/ getFirstProject(p).none
    \/ GetObjectPanics(getFirstProject(p).Object, "targets")

getTarget(p, productType) ==
    Bind([targets \in {Visited(GetObject(getFirstProject(p).Object, "targets"))} |->
    Bind([i \in {FirstIdx(targets, LAMBDA it :
             GetString(GetObject(Section(p, "PBXNativeTarget"),
                                 GetString(it.data.v, "value")),
                       "productType") = Quoted(productType))} |->
        IF i = 0 THEN [UUID |-> "", Object |-> NewSliceMap]
        ELSE [UUID |-> GetString(targets[i].data.v, "value"),
              Object |-> GetObject(Section(p, "PBXNativeTarget"),
                                   GetString(targets[i].data.v, "value"))]])])

\* The records AddTargetDependency makes for one dependency.
itemProxy(p, dependencyTargetUuid) ==
    NewObjectWithData(<<
        NewObjectItem("isa", StrV("PBXContainerItemProxy")),
        NewObjectItem("containerPortal", StrV(GetString(p.project, "rootObject"))),
        NewObjectItem(toCommentKey("containerPortal"),
                      StrV(GetString(p.project, toCommentKey("rootObject")))),
        NewObjectItem("proxyType", IntV(1)),
        NewObjectItem("remoteGlobalIDString", StrV(dependencyTargetUuid)),
        NewObjectItem("remoteInfo",
                      StrV(GetString(GetObject(Section(p, "PBXNativeTarget"),
                                               dependencyTargetUuid),
                                     "name")))>>)

targetDependency(p, dependencyTargetUuid, itemProxyUuid) ==
    NewObjectWithData(<<
        NewObjectItem("isa", StrV("PBXTargetDependency")),
        NewObjectItem("target", StrV(dependencyTargetUuid)),
        NewObjectItem(toCommentKey("target"),
                      StrV(GetString(Section(p, "PBXNativeTarget"),
                                     toCommentKey(dependencyTargetUuid)))),
        NewObjectItem("targetProxy", StrV(itemProxyUuid)),
        NewObjectItem(toCommentKey("targetProxy"),
                      StrV("PBXContainerItemProxy"))>>)

\* addToObjectList on the record key of the bucket name of the tree.
RecordListAdd(p, name, key, list, val) ==
    IF p.panic THEN p
    ELSE Bind([obj \in {GetObject(Section(p, name), key)} |->
         IF addToObjectListPanics(obj, list) THEN Panic(p)
         ELSE [p EXCEPT !.project =
                  UpdAt(@, <<"objects", name, key>>,
                        addToObjectList(obj, list, val))]])

\* One turn of the second loop of AddTargetDependency.  The two buckets it
\* sets are the objects initSections got; what is set in the object that
\* stands for a bucket the file does not have is not in the tree.
AddOneTargetDependency(p, target, dependencyTargetUuid) ==
    Bind([p1 \in {generateUuid(p)} |->
    Bind([p2 \in {generateUuid(p1)} |->
    Bind([targetDependencyUuid \in {LastUuid(p1)} |->
    Bind([itemProxyUuid \in {LastUuid(p2)} |->
        IF GetObjectPanics(Section(p2, "PBXNativeTarget"), dependencyTargetUuid)
        THEN Panic(p2)
        ELSE RecordListAdd(
               SectionSet(
                 SectionSet(
                   SectionSet(
                     SectionSet(p2, "PBXContainerItemProxy", itemProxyUuid,
                                ObjV(itemProxy(p2, dependencyTargetUuid))),
                     "PBXContainerItemProxy", toCommentKey(itemProxyUuid),
                     StrV("pbxContainerItemProxy")),
                   "PBXTargetDependency", targetDependencyUuid,
                   ObjV(targetDependency(p2, dependencyTargetUuid,
                                         itemProxyUuid))),
                 "PBXTargetDependency", toCommentKey(targetDependencyUuid),
                 StrV("pbxTargetDependency")),
               "PBXNativeTarget", target, "dependencies",
               Entry(targetDependencyUuid, "pbxTargetDependency"))])])])])

RECURSIVE AddTargetDependencies(_, _, _)
AddTargetDependencies(p, target, dependencyTargets) ==
    IF dependencyTargets = <<>> \/ p.panic THEN p
    ELSE AddTargetDependencies(
           AddOneTargetDependency(p, target, Head(dependencyTargets)),
           target, Tail(dependencyTargets))

\* AddTargetDependency without the first loop: the dependencies are not
\* looked up before records are made for them.
AddTargetDependencyUnchecked(p, target, dependencyTargets) ==
    Bind([pbxNativeTargetSection \in {Section(p, "PBXNativeTarget")} |->
        IF p.panic \/ target = "" THEN p
        ELSE IF ~Has(pbxNativeTargetSection, target) THEN p
        ELSE IF GetObjectPanics(pbxNativeTargetSection, target) THEN Panic(p)
        ELSE IF IsEmpty(GetObject(pbxNativeTargetSection, target)) THEN p
        ELSE AddTargetDependencies(p, target, dependencyTargets)])

AddTargetDependency(p, target, dependencyTargets) ==
    Bind([pbxNativeTargetSection \in {Section(p, "PBXNativeTarget")} |->
        IF p.panic \/ target = "" THEN p
        ELSE IF ~Has(pbxNativeTargetSection, target) THEN p
        ELSE IF \E i \in 1..Len(dependencyTargets) :
                   ~Has(pbxNativeTargetSection, dependencyTargets[i]) THEN p
        ELSE IF GetObjectPanics(pbxNativeTargetSection, target) THEN Panic(p)
        ELSE IF IsEmpty(GetObject(pbxNativeTargetSection, target)) THEN p
        ELSE AddTargetDependencies(p, target, dependencyTargets)])

\* strings.Trim(s, " ").
RECURSIVE TrimSpaces(_)
TrimSpaces(s) ==
    IF s = "" THEN s
    ELSE IF Char(s, 1) = " " THEN TrimSpaces(SubSeq(s, 2, Len(s)))
    ELSE IF Char(s, Len(s)) = " " THEN TrimSpaces(SubSeq(s, 1, Len(s) - 1))
    ELSE s

\* A Go slice that is no []interface{}: []string and []pegparser.Object.
StringsV(seq) == [t |-> "[]string", v |-> seq]

ObjectsV(seq) == [t |-> "[]pegparser.Object", v |-> seq]

\* One turn of the loop of addXCConfigurationList: r holds the project and
\* the buildConfigurations collected so far.
AddConfiguration(r, configuration) ==
    Bind([p1 \in {generateUuid(r.p)} |->
        [p |-> SectionSet(
                 SectionSet(p1, "XCBuildConfiguration", LastUuid(p1),
                            ObjV(configuration)),
                 "XCBuildConfiguration", toCommentKey(LastUuid(p1)),
                 StrV(GetString(configuration, "name"))),
         buildConfigurations |->
             Append(r.buildConfigurations,
                    Entry(LastUuid(p1), GetString(configuration, "name")))]])

RECURSIVE AddConfigurations(_, _)
AddConfigurations(r, configurationObjectsArray) ==
    IF configurationObjectsArray = <<>> THEN r
    ELSE AddConfigurations(AddConfiguration(r, Head(configurationObjectsArray)),
                           Tail(configurationObjectsArray))

\* addXCConfigurationList: the project after it and the UUID it returns.
addXCConfigurationList(p, configurationObjectsArray, defaultConfigurationName, comment) ==
    Bind([p1 \in {generateUuid(p)} |->
    Bind([r \in {AddConfigurations([p |-> p1, buildConfigurations |-> <<>>],
                           configurationObjectsArray)} |->
    Bind([xcConfigurationList \in {NewObjectWithData(<<
            NewObjectItem("isa", StrV("XCConfigurationList")),
            NewObjectItem("defaultConfigurationIsVisible", IntV(0)),
            NewObjectItem("defaultConfigurationName",
                          StrV(defaultConfigurationName)),
            NewObjectItem("buildConfigurations",
                          ObjectsV(r.buildConfigurations))>>)} |->
        [p |-> SectionSet(
                 SectionSet(r.p, "XCConfigurationList", LastUuid(p1),
                            ObjV(xcConfigurationList)),
                 "XCConfigurationList", toCommentKey(LastUuid(p1)),
                 StrV(comment)),
         UUID |-> LastUuid(p1)]])])])

\* addProductFile: the project after it and the file it returns; newPbxFile
\* may panic.
addProductFile(p, filePath, options) ==
    IF p.panic THEN [p |-> p, pbxfile |-> NoFile]
    ELSE IF newPbxFilePanics(filePath, options)
    THEN [p |-> Panic(p), pbxfile |-> NoFile]
    ELSE Bind([p1 \in {generateUuid(p)} |->
         Bind([p2 \in {generateUuid(p1)} |->
         Bind([f0 \in {newPbxFile(filePath, options)} |->
         Bind([pbxfile \in {[f0 EXCEPT !.IncludeInIndex = 0,
                         !.FileRef = LastUuid(p1),
                         !.Target = options.Target,
                         !.Group = options.Group,
                         !.Uuid = LastUuid(p2),
                         !.Path = f0.Basename]} |->
             [p |-> addToPbxGroup(addToPbxFileReferenceSection(p2, pbxfile),
                                  pbxfile, "Products"),
              pbxfile |-> pbxfile]])])])])

SUBFOLDERSPEC_BY_DESTINATION ==
    [absolute_path |-> 0, executables |-> 6, frameworks |-> 10,
     java_resources |-> 15, plugins |-> 13, products_directory |-> 16,
     resources |-> 7, shared_frameworks |-> 11, shared_support |-> 12,
     wrapper |-> 1, xpc_services |-> 0]

DESTINATION_BY_TARGETTYPE ==
    [application |-> "wrapper", app_extension |-> "plugins",
     bundle |-> "wrapper", command_line_tool |-> "wrapper",
     dynamic_library |-> "products_directory",
     framework |-> "shared_frameworks", frameworks |-> "frameworks",
     static_library |-> "products_directory", unit_test_bundle |-> "wrapper",
     watch_app |-> "wrapper", watch2_app |-> "products_directory",
     watch_extension |-> "plugins", watch2_extension |-> "plugins"]

\* A missing key of a Go map reads as the zero value.
pbxCopyFilesBuildPhaseObj(obj, folderType, subfolderPath, phaseName) ==
    Set(Set(Set(obj, "name", StrV(Quoted(phaseName))),
            "dstPath", StrV(IF subfolderPath = "" THEN "\"\""
                            ELSE subfolderPath)),
        "dstSubfolderSpec",
        IntV(Lookup(SUBFOLDERSPEC_BY_DESTINATION,
                    Lookup(DESTINATION_BY_TARGETTYPE, folderType, ""), 0)))

\* The build files AddBuildPhase indexes by the path of their file
\* reference: for every comment entry of PBXBuildFile whose build file has
\* a file reference, the path and the PbxFile fields it keeps.
BuildFileOf(p, item) ==
    Bind([buildFileKey \in {fromCommentKey(item.key)} |->
    Bind([fileReference \in {GetObject(Section(p, "PBXFileReference"),
                   GetString(GetObject(Section(p, "PBXBuildFile"), buildFileKey),
                             "fileRef"))} |->
        [buildFileKey |-> buildFileKey,
         referenced |-> ~IsEmpty(fileReference),
         filePath |-> GetString(fileReference, "path"),
         panics |->
            \/ GetObjectPanics(Section(p, "PBXBuildFile"), buildFileKey)
            \/ GetObjectPanics(
                 Section(p, "PBXFileReference"),
                 GetString(GetObject(Section(p, "PBXBuildFile"), buildFileKey),
                           "fileRef"))
            \/ /\ ~IsEmpty(fileReference)
               /\ newPbxFilePanics(GetString(fileReference, "path"),
                                   newPbxFileOptions)]])])

filePathToBuildFile(p) ==
    Bind([items \in {onlyCommentsItems(Section(p, "PBXBuildFile"))} |->
        [i \in 1..Len(items) |-> BuildFileOf(p, items[i])]])

\* The PbxFile the index holds for filePath (the last one set), <<>> when
\* it holds none.
IndexedBuildFile(index, filePath) ==
    Bind([at \in {{i \in 1..Len(index) :
            index[i].referenced /\ index[i].filePath = filePath}} |->
        IF at = {} THEN <<>>
        ELSE Bind([e \in {index[CHOOSE i \in at : \A j \in at : j <= i]} |->
                 <<[Uuid |-> e.buildFileKey,
                    Basename |-> newPbxFile(e.filePath, newPbxFileOptions).Basename,
                    Group |-> newPbxFile(e.filePath, newPbxFileOptions).Group]>>])])

\* One turn of the loop over filePathsArray: r holds the project and the
\* build phase object.
AddBuildPhaseFile(r, index, filePath) ==
    Bind([found \in {IF IndexedBuildFile(index, filePath) # <<>>
         THEN IndexedBuildFile(index, filePath)
         ELSE IndexedBuildFile(index, Quoted(filePath))} |->
        IF found # <<>>
        THEN [r EXCEPT !.buildPhase =
                 addToObjectList(@, "files", ObjV(pbxBuildPhaseObj(found[1])))]
        ELSE IF newPbxFilePanics(filePath, newPbxFileOptions)
        THEN [r EXCEPT !.p = Panic(@)]
        ELSE Bind([p1 \in {generateUuid(r.p)} |->
             Bind([p2 \in {generateUuid(p1)} |->
             Bind([pbxfile \in {[newPbxFile(filePath, newPbxFileOptions)
                   EXCEPT !.Uuid = LastUuid(p1), !.FileRef = LastUuid(p2)]} |->
                 [p |-> addToPbxBuildFileSection(
                          addToPbxFileReferenceSection(p2, pbxfile), pbxfile),
                  buildPhase |-> addToObjectList(r.buildPhase, "files",
                                     ObjV(pbxBuildPhaseObj(pbxfile)))]])])])])

RECURSIVE AddBuildPhaseFiles(_, _, _)
AddBuildPhaseFiles(r, index, filePathsArray) ==
    IF filePathsArray = <<>> \/ r.p.panic THEN r
    ELSE AddBuildPhaseFiles(AddBuildPhaseFile(r, index, Head(filePathsArray)),
                            index, Tail(filePathsArray))

\* The bucket buildPhaseType of the tree: an empty one is made when the
\* tree has none or an empty one.
WithBuildPhaseSection(p, buildPhaseType) ==
    IF IsEmpty(Section(p, buildPhaseType))
    THEN [p EXCEPT !.project =
             UpdAt(@, <<"objects">>,
                   Set(GetObject(@, "objects"), buildPhaseType,
                       ObjV(NewSliceMap)))]
    ELSE p

\* The build phase is stored under its key and listed in buildPhases of
\* the target, when the target has that key.
WithBuildPhase(p, buildPhaseType, buildPhaseUuid, phase, comment, target) ==
    Bind([p1 \in {SectionSet(
           SectionSet(WithBuildPhaseSection(p, buildPhaseType), buildPhaseType,
                      buildPhaseUuid, ObjV(phase)),
           buildPhaseType, toCommentKey(buildPhaseUuid), StrV(comment))} |->
        IF GetObjectPanics(Section(p1, "PBXNativeTarget"), target)
        THEN Panic(p1)
        ELSE IF Has(GetObject(Section(p1, "PBXNativeTarget"), target),
                    "buildPhases")
        THEN RecordListAdd(p1, "PBXNativeTarget", target, "buildPhases",
                           Entry(buildPhaseUuid, comment))
        ELSE p1])

\* AddBuildPhase with a string for optionsOrFolderType: a
\* PBXShellScriptBuildPhase, which wants the options struct, returns where
\* the type is tested.  The build phase object is the one stored in the
\* bucket, so the files added to it are seen there as they are added.
AddBuildPhase(p, filePathsArray, buildPhaseType, comment, target, folderType, subfolderPath) ==
    IF p.panic THEN p
    ELSE IF target = "" /\ getFirstTargetPanics(p) THEN Panic(generateUuid(p))
    ELSE IF buildPhaseType = "PBXShellScriptBuildPhase" THEN generateUuid(p)
    ELSE
    Bind([p1 \in {generateUuid(p)} |->
    Bind([buildPhaseTargetUuid \in {IF target = "" THEN getFirstTarget(p1).UUID ELSE target} |->
    Bind([plain \in {NewObjectWithData(<<
            NewObjectItem("isa", StrV(buildPhaseType)),
            NewObjectItem("buildActionMask", IntV(2147483647)),
            NewObjectItem("files", ArrV(<<>>)),
            NewObjectItem("runOnlyForDeploymentPostprocessing", IntV(0))>>)} |->
    Bind([phase \in {IF buildPhaseType = "PBXCopyFilesBuildPhase"
         THEN pbxCopyFilesBuildPhaseObj(plain, folderType, subfolderPath, comment)
         ELSE plain} |->
    Bind([p2 \in {WithBuildPhase(p1, buildPhaseType, LastUuid(p1), phase, comment,
                        buildPhaseTargetUuid)} |->
    Bind([index \in {filePathToBuildFile(p2)} |->
        IF p2.panic THEN p2
        ELSE IF \E i \in 1..Len(index) : index[i].panics THEN Panic(p2)
        ELSE Bind([r \in {AddBuildPhaseFiles([p |-> p2, buildPhase |-> phase],
                                     index, filePathsArray)} |->
                 IF r.p.panic
                 THEN Panic(SectionSet([r.p EXCEPT !.panic = FALSE],
                                       buildPhaseType, LastUuid(p1),
                                       ObjV(r.buildPhase)))
                 ELSE SectionSet(
                        SectionSet(r.p, buildPhaseType, LastUuid(p1),
                                   ObjV(r.buildPhase)),
                        buildPhaseType, toCommentKey(LastUuid(p1)),
                        StrV(comment))])])])])])])])

addToPbxNativeTargetSection(p, uuid, target) ==
    SectionSet(SectionSet(p, "PBXNativeTarget", uuid, ObjV(target)),
               "PBXNativeTarget", toCommentKey(uuid),
               StrV(GetString(target, "name")))

pbxNativeTargetComment(target) == GetString(target, "name")

\* addToPbxProjectSection: the list helper returns at once on the Object of
\* a project that was not found.
addToPbxProjectSection(p, uuid, target) ==
    IF p.panic THEN p
    ELSE IF getFirstProjectPanics(p) THEN Panic(p)
    ELSE IF getFirstProject(p).none THEN p
    ELSE RecordListAdd(p, "PBXProject", getFirstProject(p).UUID, "targets",
                       Entry(uuid, pbxNativeTargetComment(target)))

\* filepath.Join of two elements that are clean and not empty.
FilepathJoin(dir, name) == dir \o "/" \o name

\* The build settings AddTarget gives a configuration, PRODUCT_BUNDLE_IDENTIFIER
\* being set when the bundle id is not empty.
TargetBuildSettings(debug, targetSubfolder, targetName, targetBundleId) ==
    Bind([buildSettings \in {NewObjectWithData(
           (IF debug
            THEN <<NewObjectItem("GCC_PREPROCESSOR_DEFINITIONS",
                                 StringsV(<<"\"DEBUG=1\"", "\"$(inherited)\"">>))>>
            ELSE <<>>)
           \o <<NewObjectItem("INFOPLIST_FILE",
                   StrV("\"" \o FilepathJoin(targetSubfolder,
                            targetSubfolder \o "-Info.plist" \o "\""))),
                NewObjectItem("LD_RUNPATH_SEARCH_PATHS",
                   StrV("\"$(inherited) @executable_path/Frameworks @executable_path/../../Frameworks\"")),
                NewObjectItem("PRODUCT_NAME", StrV(Quoted(targetName))),
                NewObjectItem("SKIP_INSTALL", StrV("YES"))>>)} |->
        IF targetBundleId # ""
        THEN Set(buildSettings, "PRODUCT_BUNDLE_IDENTIFIER",
                 StrV(Quoted(targetBundleId)))
        ELSE buildSettings])

buildConfigurationsList(targetSubfolder, targetName, targetBundleId) ==
    <<NewObjectWithData(<<
        NewObjectItem("name", StrV("Debug")),
        NewObjectItem("isa", StrV("XCBuildConfiguration")),
        NewObjectItem("buildSettings",
            ObjV(TargetBuildSettings(TRUE, targetSubfolder, targetName,
                                     targetBundleId)))>>),
      NewObjectWithData(<<
        NewObjectItem("name", StrV("Release")),
        NewObjectItem("isa", StrV("XCBuildConfiguration")),
        NewObjectItem("buildSettings",
            ObjV(TargetBuildSettings(FALSE, targetSubfolder, targetName,
                                     targetBundleId)))>>)>>

NewTarget(targetName, targetType, productReference, buildConfigurationList) ==
    NewObjectWithData(<<
        NewObjectItem("isa", StrV("PBXNativeTarget")),
        NewObjectItem("name", StrV(Quoted(targetName))),
        NewObjectItem("productName", StrV(Quoted(targetName))),
        NewObjectItem("productReference", StrV(productReference)),
        NewObjectItem("productType",
                      StrV(Quoted(producttypeForTargettype(targetType)))),
        NewObjectItem("buildConfigurationList", StrV(buildConfigurationList)),
        NewObjectItem("buildPhases", ArrV(<<>>)),
        NewObjectItem("buildRules", ArrV(<<>>)),
        NewObjectItem("dependencies", ArrV(<<>>))>>)

\* AddTarget from "Product: Embed" on: the copy-files phase for the type of
\* the target.
EmbedProduct(p, targetName, targetType, productFile) ==
    IF p.panic THEN p
    ELSE IF targetType = "app_extension"
    THEN IF getFirstTargetPanics(p) THEN Panic(p)
         ELSE addToPbxBuildPhase(
                AddBuildPhase(p, <<>>, "PBXCopyFilesBuildPhase", "Copy Files",
                              getFirstTarget(p).UUID, targetType, ""),
                "PBXCopyFilesBuildPhase", "Copy Files", productFile)
    ELSE IF targetType = "watch2_app"
    THEN IF getFirstTargetPanics(p) THEN Panic(p)
         ELSE AddBuildPhase(p, <<targetName \o ".app">>,
                            "PBXCopyFilesBuildPhase", "Embed Watch Content",
                            getFirstTarget(p).UUID, targetType,
                            "\"$(CONTENTS_FOLDER_PATH)/Watch\"")
    ELSE IF targetType = "watch2_extension"
    THEN IF getTargetPanics(p) THEN Panic(p)
         ELSE Bind([watch2Target \in {getTarget(p, producttypeForTargettype("watch2_app"))} |->
                  IF watch2Target.UUID # ""
                  THEN AddBuildPhase(p, <<targetName \o ".appex">>,
                                     "PBXCopyFilesBuildPhase",
                                     "Embed App Extensions", watch2Target.UUID,
                                     targetType, "")
                  ELSE p])
    ELSE p

\* AddTarget, last step: the dependency of another target on this one.
DependOnTarget(p, targetType, targetUuid) ==
    IF p.panic THEN p
    ELSE IF targetType = "watch2_extension"
    THEN IF getTargetPanics(p) THEN Panic(p)
         ELSE Bind([watch2Target \in {getTarget(p, producttypeForTargettype("watch2_app"))} |->
                  IF watch2Target.UUID # ""
                  THEN AddTargetDependency(p, watch2Target.UUID, <<targetUuid>>)
                  ELSE p])
    ELSE IF getFirstTargetPanics(p) THEN Panic(p)
    ELSE AddTargetDependency(p, getFirstTarget(p).UUID, <<targetUuid>>)

\* AddTarget: the project after the call and whether it returned an error.
AddTarget(p, name, targetType, subfolder, bundleId) ==
    Bind([p0 \in {generateUuid(p)} |->
    Bind([targetUuid \in {LastUuid(p0)} |->
    Bind([targetSubfolder \in {IF subfolder = "" THEN name ELSE subfolder} |->
    Bind([targetName \in {TrimSpaces(name)} |->
        IF \/ targetName = ""
           \/ targetType = ""
           \/ producttypeForTargettype(targetType) = ""
        THEN [p |-> p0, err |-> TRUE]
        ELSE
        Bind([buildConfigurations \in {addXCConfigurationList(
               p0, buildConfigurationsList(targetSubfolder, targetName, bundleId),
               "Release",
               "Build configuration list for PBXNativeTarget \""
                   \o targetName \o "\"")} |->
        Bind([product \in {addProductFile(
               buildConfigurations.p, targetName,
               [NoOptions EXCEPT
                  !.Group = "Copy Files", !.Target = targetUuid,
                  !.ExplicitFileType = filetypeForProducttype(
                                           producttypeForTargettype(targetType))])} |->
        Bind([target \in {NewTarget(targetName, targetType, product.pbxfile.FileRef,
                       buildConfigurations.UUID)} |->
            [p |-> DependOnTarget(
                     addToPbxProjectSection(
                       EmbedProduct(
                         addToPbxNativeTargetSection(
                           addToPbxBuildFileSection(product.p, product.pbxfile),
                           targetUuid, target),
                         targetName, targetType, product.pbxfile),
                       targetUuid, target),
                     targetType, targetUuid),
             err |-> FALSE]])])])])])])])

(***************************************************************************)
(* Known regions.  The three operations take the first record of the       *)
(* PBXProject bucket and then look in that bucket for the record whose key *)
(* is the string the first record holds under "project"; a first record    *)
(* without that string names the key "", and GetObject answers a missing   *)
(* key with an Object that holds nothing.                                  *)
(***************************************************************************)
\* project of the three operations, once getFirstProject has returned.
knownRegionsProjectUuid(p) == GetString(getFirstProject(p).Object, "project")

knownRegionsProject(p) ==
    GetObject(Section(p, "PBXProject"), knownRegionsProjectUuid(p))

\* The position of the loops over knownRegions where they stop: the first
\* entry that is the string name or is no string (v.(string) fails there),
\* 0 when the loop runs to its end.
knownRegionsStop(list, name) ==
    Bind([at \in {{i \in 1..Len(list) :
                     ~isString(list[i]) \/ list[i].v = name}} |->
        IF at = {} THEN 0 ELSE CHOOSE i \in at : \A j \in at : i <= j])

\* What HasKnownRegion does: "panic", "true" or "false".
hasKnownRegionOutcome(p, name) ==
    IF getFirstProjectPanics(p) THEN "panic"
    ELSE IF getFirstProject(p).UUID = "" THEN "false"
    ELSE IF GetObjectPanics(Section(p, "PBXProject"), knownRegionsProjectUuid(p))
    THEN "panic"
    ELSE Bind([project \in {knownRegionsProject(p)} |->
         IF IsEmpty(project) THEN "false"
         ELSE Bind([knownRegions \in {ForceGet(project, "knownRegions")} |->
              IF knownRegions = Nil THEN "false"
              ELSE IF ~isArray(knownRegions) THEN "panic"
              ELSE Bind([i \in {knownRegionsStop(knownRegions.v, name)} |->
                   IF i = 0 THEN "false"
                   ELSE IF ~isString(knownRegions.v[i]) THEN "panic"
                   ELSE "true"])])])

HasKnownRegionPanics(p, name) == hasKnownRegionOutcome(p, name) = "panic"

HasKnownRegion(p, name) == hasKnownRegionOutcome(p, name) = "true"

\* project.Set(key, val) on the record the operations work on.
knownRegionsSet(p, val) ==
    Bind([project \in {knownRegionsProject(p)} |->
        IF SetPanics(project, "knownRegions") THEN Panic(p)
        ELSE [p EXCEPT !.project =
                 UpdAt(@, <<"objects", "PBXProject", knownRegionsProjectUuid(p)>>,
                       Set(project, "knownRegions", val))]])

AddKnownRegion(p, name) ==
    IF getFirstProjectPanics(p) THEN Panic(p)
    ELSE IF getFirstProject(p).UUID = "" THEN p
    ELSE IF GetObjectPanics(Section(p, "PBXProject"), knownRegionsProjectUuid(p))
    THEN Panic(p)
    ELSE Bind([project \in {knownRegionsProject(p)} |->
         IF IsEmpty(project) THEN p
         ELSE IF ~Has(project, "knownRegions")
         THEN knownRegionsSet(p, StringsV(<<name>>))
         ELSE IF HasKnownRegionPanics(p, name) THEN Panic(p)
         ELSE IF HasKnownRegion(p, name) THEN p
         ELSE IF ~isArray(ForceGet(project, "knownRegions")) THEN Panic(p)
         ELSE knownRegionsSet(p,
                  ArrV(Append(ForceGet(project, "knownRegions").v,
                              StrV(name))))])

RemoveKnownRegion(p, name) ==
    IF getFirstProjectPanics(p) THEN Panic(p)
    ELSE IF getFirstProject(p).UUID = "" THEN p
    ELSE IF GetObjectPanics(Section(p, "PBXProject"), knownRegionsProjectUuid(p))
    THEN Panic(p)
    ELSE Bind([project \in {knownRegionsProject(p)} |->
         IF IsEmpty(project) THEN p
         ELSE Bind([knownRegions \in {ForceGet(project, "knownRegions")} |->
              IF knownRegions = Nil THEN p
              ELSE IF ~isArray(knownRegions) THEN Panic(p)
              ELSE Bind([i \in {knownRegionsStop(knownRegions.v, name)} |->
                   IF i = 0 THEN p
                   ELSE IF ~isString(knownRegions.v[i]) THEN Panic(p)
                   ELSE knownRegionsSet(p,
                            ArrV(RemoveAt(knownRegions.v, i)))])])])

(***************************************************************************)
(* Build properties.                                                       *)
(***************************************************************************)
\* pbxItemByComment: the record of the bucket pbxSectionName whose comment
\* entry is name, an Object that holds nothing when there is none.
\* value.(string) fails on a comment entry that is no string.
pbxItemByCommentStop(p, name, pbxSectionName) ==
    FirstIdx(onlyCommentsItems(Section(p, pbxSectionName)),
             LAMBDA it : ~isString(it.data) \/ it.data.v = name)

pbxItemByCommentPanics(p, name, pbxSectionName) ==
    Bind([i \in {pbxItemByCommentStop(p, name, pbxSectionName)} |->
        i # 0 /\ ~isString(onlyCommentsItems(Section(p, pbxSectionName))[i].data)])

pbxItemByComment(p, name, pbxSectionName) ==
    Bind([i \in {pbxItemByCommentStop(p, name, pbxSectionName)} |->
        IF i = 0 THEN NewSliceMap
        ELSE GetObject(Section(p, pbxSectionName),
                 fromCommentKey(onlyCommentsItems(Section(p, pbxSectionName))[i].key))])

pbxTargetByName(p, name) == pbxItemByComment(p, name, "PBXNativeTarget")

\* The first loop of UpdateBuildProperty: the record of the
\* XCConfigurationList bucket whose key is the buildConfigurationList of
\* the target, <<>> without one.
targetConfigurationList(p, targetName) ==
    Bind([target \in {pbxTargetByName(p, targetName)} |->
        IF targetName = "" \/ IsEmpty(target) THEN <<>>
        ELSE SelectSeq(nonCommentsItems(Section(p, "XCConfigurationList")),
                 LAMBDA it : it.key = GetString(target, "buildConfigurationList"))])

validConfigsPanics(p, targetName) ==
    \/ targetName # "" /\ pbxItemByCommentPanics(p, targetName, "PBXNativeTarget")
    \/ Bind([found \in {targetConfigurationList(p, targetName)} |->
          /\ found # <<>>
          /\ \/ ~isObject(found[1].data)
             \/ ~isArray(ForceGet(found[1].data.v, "buildConfigurations"))
             \/ \E i \in 1..Len(ForceGet(found[1].data.v, "buildConfigurations").v) :
                   ~isObject(ForceGet(found[1].data.v, "buildConfigurations").v[i])])

validConfigs(p, targetName) ==
    Bind([found \in {targetConfigurationList(p, targetName)} |->
        IF found = <<>> THEN {}
        ELSE Bind([buildVariants \in {ForceGet(found[1].data.v, "buildConfigurations").v} |->
             {GetString(buildVariants[i].v, "value") : i \in 1..Len(buildVariants)}])])

\* The second loop of UpdateBuildProperty from the entry i of items on.
RECURSIVE UpdateBuildPropertyLoop(_, _, _, _, _, _, _, _)
UpdateBuildPropertyLoop(p, items, i, prop, value, build, targetName, valid) ==
    IF i > Len(items) THEN p
    ELSE IF targetName # "" /\ items[i].key \notin valid
    THEN UpdateBuildPropertyLoop(p, items, i + 1, prop, value, build, targetName, valid)
    ELSE IF ~isObject(items[i].data) THEN Panic(p)
    ELSE IF build = "" \/ GetString(items[i].data.v, "name") = build
    THEN IF SetPanics(items[i].data.v, prop) THEN Panic(p)
         ELSE UpdateBuildPropertyLoop(
                  [p EXCEPT !.project =
                      UpdAt(@, <<"objects", "XCConfigurationList", items[i].key>>,
                            Set(items[i].data.v, prop, StrV(value)))],
                  items, i + 1, prop, value, build, targetName, valid)
    ELSE UpdateBuildPropertyLoop(p, items, i + 1, prop, value, build, targetName, valid)

UpdateBuildProperty(p, prop, value, build, targetName) ==
    IF validConfigsPanics(p, targetName) THEN Panic(p)
    ELSE UpdateBuildPropertyLoop(p,
             nonCommentsItems(Section(p, "XCConfigurationList")), 1,
             prop, value, build, targetName, validConfigs(p, targetName))

UpdateProductName(p, name) ==
    UpdateBuildProperty(p, "PRODUCT_NAME", Quoted(name), "", "")

\* AddBuildProperty from the entry i of the XCBuildConfiguration items on.
RECURSIVE AddBuildPropertyLoop(_, _, _, _, _, _)
AddBuildPropertyLoop(p, items, i, prop, value, build_name) ==
    IF i > Len(items) THEN p
    ELSE IF ~isObject(items[i].data) THEN Panic(p)
    ELSE IF build_name = "" \/ GetString(items[i].data.v, "name") = build_name
    THEN IF GetObjectPanics(items[i].data.v, "buildSettings")
            \/ SetPanics(GetObject(items[i].data.v, "buildSettings"), prop)
         THEN Panic(p)
         ELSE AddBuildPropertyLoop(
                  [p EXCEPT !.project =
                      UpdAt(@, <<"objects", "XCBuildConfiguration",
                                 items[i].key, "buildSettings">>,
                            Set(GetObject(items[i].data.v, "buildSettings"),
                                prop, StrV(value)))],
                  items, i + 1, prop, value, build_name)
    ELSE AddBuildPropertyLoop(p, items, i + 1, prop, value, build_name)

AddBuildProperty(p, prop, value, build_name) ==
    AddBuildPropertyLoop(p, nonCommentsItems(Section(p, "XCBuildConfiguration")),
                         1, prop, value, build_name)

(***************************************************************************)
(* Target attributes.  attributes is the Object stored in the first        *)
(* PBXProject record, so what is set in it is in the tree; targetAttr is   *)
(* in the tree when TargetAttributes holds it, and is an Object of its own *)
(* when GetObject made it for a missing key.                               *)
(***************************************************************************)
attributesPath(p) ==
    <<"objects", "PBXProject", getFirstProject(p).UUID, "attributes">>

projectAttributes(p) == GetObject(getFirstProject(p).Object, "attributes")

\* attributes.Set(key, val)
attributesSet(p, key, val) ==
    IF SetPanics(projectAttributes(p), key) THEN Panic(p)
    ELSE [p EXCEPT !.project =
             UpdAt(@, attributesPath(p), Set(projectAttributes(p), key, val))]

\* AddTargetAttribute from `targetAttr := targetAttrs.GetObject(target.UUID)`
\* on; targetAttrs is stored in attributes by then.
addTargetAttributeTail(p, prop, value, targetUuid) ==
    Bind([targetAttrs \in {GetObject(projectAttributes(p), "TargetAttributes")} |->
        IF GetObjectPanics(targetAttrs, targetUuid) THEN Panic(p)
        ELSE Bind([targetAttr \in {GetObject(targetAttrs, targetUuid)} |->
        Bind([p1 \in {IF ~IsEmpty(targetAttr)
                      THEN attributesSet(p, targetUuid, ObjV(NewSliceMap))
                      ELSE p} |->
            IF p1.panic THEN p1
            ELSE IF SetPanics(targetAttr, prop) THEN Panic(p1)
            ELSE [p1 EXCEPT !.project =
                     UpdAt(@, attributesPath(p) \o <<"TargetAttributes", targetUuid>>,
                           Set(targetAttr, prop, StrV(value)))]])])])

\* target is the UUID of the ObjectWithUUID handed in.
AddTargetAttribute(p, prop, value, target) ==
    IF getFirstProjectPanics(p) THEN [p |-> Panic(p), err |-> FALSE]
    ELSE IF getFirstProject(p).UUID = "" THEN [p |-> p, err |-> TRUE]
    ELSE IF GetObjectPanics(getFirstProject(p).Object, "attributes")
    THEN [p |-> Panic(p), err |-> FALSE]
    ELSE IF IsEmpty(projectAttributes(p)) THEN [p |-> p, err |-> TRUE]
    ELSE IF GetObjectPanics(projectAttributes(p), "TargetAttributes")
    THEN [p |-> Panic(p), err |-> FALSE]
    ELSE Bind([p1 \in {IF IsEmpty(GetObject(projectAttributes(p), "TargetAttributes"))
                       THEN attributesSet(p, "TargetAttributes", ObjV(NewSliceMap))
                       ELSE p} |->
         IF p1.panic THEN [p |-> p1, err |-> FALSE]
         ELSE IF target = "" /\ getFirstTargetPanics(p1)
         THEN [p |-> Panic(p1), err |-> FALSE]
         ELSE Bind([targetUuid \in {IF target = "" THEN getFirstTarget(p1).UUID
                                    ELSE target} |->
              IF targetUuid = "" THEN [p |-> p1, err |-> TRUE]
              ELSE [p |-> addTargetAttributeTail(p1, prop, value, targetUuid),
                    err |-> FALSE]])])

RemoveTargetAttribute(p, prop, target) ==
    IF getFirstProjectPanics(p) THEN [p |-> Panic(p), err |-> FALSE]
    ELSE IF getFirstProject(p).UUID = "" THEN [p |-> p, err |-> TRUE]
    ELSE IF GetObjectPanics(getFirstProject(p).Object, "attributes")
    THEN [p |-> Panic(p), err |-> FALSE]
    ELSE IF IsEmpty(projectAttributes(p)) THEN [p |-> p, err |-> TRUE]
    ELSE IF target = "" /\ getFirstTargetPanics(p)
    THEN [p |-> Panic(p), err |-> FALSE]
    ELSE Bind([targetUuid \in {IF target = "" THEN getFirstTarget(p).UUID
                               ELSE target} |->
         IF targetUuid = "" THEN [p |-> p, err |-> TRUE]
         ELSE IF GetObjectPanics(projectAttributes(p), "TargetAttributes")
         THEN [p |-> Panic(p), err |-> FALSE]
         ELSE Bind([targetAttrs \in {GetObject(projectAttributes(p), "TargetAttributes")} |->
              IF IsEmpty(targetAttrs) THEN [p |-> p, err |-> TRUE]
              ELSE IF GetObjectPanics(targetAttrs, targetUuid)
              THEN [p |-> Panic(p), err |-> FALSE]
              ELSE Bind([targetAttr \in {GetObject(targetAttrs, targetUuid)} |->
                   IF IsEmpty(targetAttr) THEN [p |-> p, err |-> FALSE]
                   ELSE IF DeletePanics(targetAttr, prop)
                   THEN [p |-> Panic(p), err |-> FALSE]
                   ELSE [p |-> [p EXCEPT !.project =
                                   UpdAt(@, attributesPath(p)
                                            \o <<"TargetAttributes", targetUuid>>,
                                         Delete(targetAttr, prop))],
                         err |-> FALSE]])])])

(***************************************************************************)
(* PbxWriter.  The text is built by concatenation in the order the code    *)
(* writes it.  The two fields of the writer that decide the text,          *)
(* omitEmptyValues and indentLevel, are parameters: the writing methods    *)
(* have value receivers, so a changed indentLevel reaches only the calls   *)
(* made below it.                                                          *)
(***************************************************************************)

\* strings.Join(strs, ""): the strings of a sequence, one after the other.
Join(strs) ==
    LET j[i \in 0..Len(strs)] == IF i = 0 THEN "" ELSE j[i - 1] \o strs[i]
    IN j[Len(strs)]

\* The texts F gives for the elements of seq, one after the other.
Concat(seq, F(_)) == Join([i \in 1..Len(seq) |-> F(seq[i])])

\* strings.TrimSpace, for the white space a file holds.
TrimSpace(s) ==
    LET black == {i \in 1..Len(s) : Char(s, i) \notin {" ", "\t", "\n", "\r"}}
    IN IF black = {} THEN ""
       ELSE SubSeq(s, CHOOSE i \in black : \A j \in black : i <= j,
                      CHOOSE i \in black : \A j \in black : i >= j)

RECURSIVE indent(_)
indent(x) == IF x <= 0 THEN "" ELSE "\t" \o indent(x - 1)

getComment(key, parent) == GetString(parent, toCommentKey(key))

\* strconv.FormatInt(n, 10) of an integer value, "" for any other value.
RECURSIVE toIntString(_)
toIntString(obj) ==
    IF ~isInt(obj) THEN ""
    ELSE IF obj.v < 0 THEN "-" \o toIntString([obj EXCEPT !.v = 0 - @])
    ELSE (IF obj.v < 10 THEN ""
          ELSE toIntString([obj EXCEPT !.v = @ \div 10]))
         \o Char("0123456789", (obj.v % 10) + 1)

\* text, followed by the comment cmt when there is one: the formats
\* "%s /* %s */" and "%s" in which keys and values are written.
Commented(text, cmt) ==
    text \o (IF cmt # "" THEN " /* " \o cmt \o " */" ELSE "")

RECURSIVE writeObject(_, _, _)
RECURSIVE writeArray(_, _, _, _)
writeArray(omitEmptyValues, indentLevel, arr, name) ==
    indent(indentLevel) \o name \o " = (\n"
    \o Concat(arr, LAMBDA obj :
         IF isObject(obj)
         THEN IF /\ GetString(obj.v, "value") # ""
                 /\ GetString(obj.v, "comment") # ""
              THEN indent(indentLevel + 1) \o GetString(obj.v, "value")
                   \o " /* " \o GetString(obj.v, "comment") \o " */,\n"
              ELSE indent(indentLevel + 1) \o "{\n"
                   \o writeObject(omitEmptyValues, indentLevel + 2, obj.v)
                   \o indent(indentLevel + 1) \o "},\n"
         ELSE IF isString(obj)
         THEN indent(indentLevel + 1) \o obj.v \o ",\n"
         ELSE IF isInt(obj)
         THEN indent(indentLevel + 1) \o toIntString(obj) \o ",\n"
         ELSE "")
    \o indent(indentLevel) \o ");\n"

writeObject(omitEmptyValues, indentLevel, obj) ==
    Concat(nonCommentsItems(obj), LAMBDA it :
        IF isArray(it.data) THEN writeArray(omitEmptyValues, indentLevel, it.data.v, it.key)
        ELSE IF isObject(it.data)
        THEN indent(indentLevel) \o it.key \o " = {\n"
             \o writeObject(omitEmptyValues, indentLevel + 1, it.data.v)
             \o indent(indentLevel) \o "};\n"
        ELSE IF isString(it.data)
        THEN IF omitEmptyValues /\ it.data.v = "" THEN ""
             ELSE indent(indentLevel)
                  \o it.key \o " = " \o Commented(it.data.v, getComment(it.key, obj))
                  \o ";\n"
        ELSE IF isInt(it.data)
        THEN indent(indentLevel)
             \o it.key \o " = " \o Commented(toIntString(it.data), getComment(it.key, obj))
             \o ";\n"
        ELSE "")

\* interfaceToStringSlice asserts that every element of a sequence is a
\* string: writing ref as a one-line record fails when a sequence in it
\* holds anything else.
RECURSIVE writeInlineObjectPanics(_)
writeInlineObjectPanics(ref) ==
    \E i \in 1..Len(nonCommentsItems(ref)) :
        LET val == nonCommentsItems(ref)[i].data
        IN \/ isArray(val) /\ \E j \in 1..Len(val.v) : ~isString(val.v[j])
           \/ isObject(val) /\ writeInlineObjectPanics(val.v)

RECURSIVE writeInlineObjectHelp(_, _, _, _)
writeInlineObjectHelp(omitEmptyValues, name, desc, ref) ==
    Commented(name, desc) \o " = {"
    \o Concat(nonCommentsItems(ref), LAMBDA it :
         IF isArray(it.data)
         THEN it.key \o " = ("
              \o Concat([j \in 1..Len(it.data.v) |->
                           [at |-> j, str |-> IF isString(it.data.v[j])
                                    THEN it.data.v[j].v ELSE ""]],
                        LAMBDA e : (IF e.at > 1 THEN "," ELSE "") \o e.str)
              \o "),"
         ELSE IF isObject(it.data)
         THEN writeInlineObjectHelp(omitEmptyValues, it.key,
                                    getComment(it.key, ref),
                                    it.data.v)
         ELSE IF isString(it.data)
         THEN IF it.data.v = "" /\ omitEmptyValues THEN ""
              ELSE it.key \o " = " \o Commented(it.data.v, getComment(it.key, ref))
                   \o "; "
         ELSE IF isInt(it.data)
         THEN it.key \o " = " \o Commented(toIntString(it.data), getComment(it.key, ref))
              \o "; "
         ELSE "")
    \o "};"

\* writeSection: the records of one isa bucket; PBXBuildFile and
\* PBXFileReference records are written on one line (writeInlineObject).
writeSection(omitEmptyValues, indentLevel, section) ==
    Concat(nonCommentsItems(section), LAMBDA it :
        IF ~isObject(it.data) THEN ""
        ELSE IF GetString(it.data.v, "isa") \in {"PBXBuildFile", "PBXFileReference"}
        THEN indent(indentLevel)
             \o TrimSpace(writeInlineObjectHelp(omitEmptyValues, it.key,
                              getComment(it.key, section), it.data.v))
             \o "\n"
        ELSE indent(indentLevel)
             \o Commented(it.key, getComment(it.key, section)) \o " = {\n"
             \o writeObject(omitEmptyValues, indentLevel + 1, it.data.v)
             \o indent(indentLevel) \o "};\n")

\* writeObjectsSections, with the Begin and End lines of writeSectionComment.
writeObjectsSections(omitEmptyValues, indentLevel, obj) ==
    Concat(Visited(obj), LAMBDA it :
        IF isObject(it.data) /\ ~IsEmpty(it.data.v)
        THEN "\n"
             \o "/* Begin " \o it.key \o " section */\n"
             \o writeSection(omitEmptyValues, indentLevel, it.data.v)
             \o "/* End " \o it.key \o " section */\n"
        ELSE "")

writeProject(omitEmptyValues, contents) ==
    "{\n"
    \o Concat(nonCommentsItems(GetObject(contents, "project")), LAMBDA it :
         IF isArray(it.data) THEN writeArray(omitEmptyValues, 1, it.data.v, it.key)
         ELSE IF isObject(it.data)
         THEN indent(1) \o it.key \o " = {\n"
              \o (IF it.key = "objects"
                  THEN writeObjectsSections(omitEmptyValues, 2, it.data.v)
                  ELSE writeObject(omitEmptyValues, 2, it.data.v))
              \o indent(1) \o "};\n"
         ELSE IF isString(it.data)
         THEN IF omitEmptyValues /\ it.data.v = "" THEN ""
              ELSE indent(1)
                   \o it.key \o " = " \o Commented(it.data.v,
                               getComment(it.key, GetObject(contents, "project")))
                   \o ";\n"
         ELSE IF isInt(it.data)
         THEN indent(1)
              \o it.key \o " = " \o Commented(toIntString(it.data),
                          getComment(it.key, GetObject(contents, "project")))
              \o ";\n"
         ELSE "")
    \o "}\n"

\* Write: writeHeadComment, then writeProject; the text of the file, and
\* whether writing it ended in a run-time panic.
Write(omitEmptyValues, contents) ==
    LET sections == Visited(GetObject(GetObject(contents, "project"), "objects"))
    IN [out |-> (IF GetString(contents, "headComment") # ""
                 THEN "// " \o GetString(contents, "headComment") \o "\n"
                 ELSE "")
                \o writeProject(omitEmptyValues, contents),
        panic |-> \E i \in 1..Len(sections) :
                     /\ isObject(sections[i].data)
                     /\ \E j \in 1..Len(nonCommentsItems(sections[i].data.v)) :
                          LET val == nonCommentsItems(sections[i].data.v)[j].data
                          IN /\ isObject(val)
                             /\ GetString(val.v, "isa")
                                  \in {"PBXBuildFile", "PBXFileReference"}
                             /\ writeInlineObjectPanics(val.v)]

(***************************************************************************)
(* A writer on a project.  The contents the writer holds are the contents  *)
(* of the project itself (Object is a reference to its map), so what the   *)
(* writer would do to them is done to the project.                         *)
(***************************************************************************)
Contents(p) == NewObjectWithData(<<NewObjectItem("project", ObjV(p.project))>>)

NewPbxWriter(p, omitEmptyValues) ==
    [contents |-> Contents(p), omitEmptyValues |-> omitEmptyValues,
     stringWriter |-> "", out |-> "", panic |-> FALSE]

\* A writer that takes out of its contents the keys it omits.
WriteFileDroppingEmpty(w) ==
    Bind([r \in {Write(w.omitEmptyValues, w.contents)} |->
        [w EXCEPT !.stringWriter = @ \o r.out,
                  !.out = w.stringWriter \o r.out, !.panic = r.panic,
                  !.contents = IF w.omitEmptyValues
                               THEN UpdAt(@, <<"project">>,
                                          Delete(GetObject(@, "project"),
                                                 "classes"))
                               ELSE @]])

\* PbxWriter.Write: the writer after the call.  writeHeadComment and
\* writeProject append their text to stringWriter, which is never emptied;
\* out is the text handed to os.WriteFile, stringWriter.String().
WriteFile(w) ==
    Bind([r \in {Write(w.omitEmptyValues, w.contents)} |->
        [w EXCEPT !.stringWriter = @ \o r.out,
                  !.out = w.stringWriter \o r.out, !.panic = r.panic]])

\* The project whose contents the writer w holds, after w has run.
Written(p, w) ==
    [p EXCEPT !.project = GetObject(w.contents, "project"),
              !.panic = w.panic]

(***************************************************************************)
(* The parser of pbxproj.peg.  A rule is an operator on the text s and    *)
(* the position i (from 1) at which it is tried; it gives                  *)
(*   [ok, pos, val, err]: whether it matched, the position behind the      *)
(* match, the value of its action, and whether an action in the match      *)
(* reported an error.  The choice / is ordered and a rule that matched is  *)
(* not tried again, as in a PEG.  The repetitions of the grammar are       *)
(* loops: the repeated rule is applied from the position acc.pos reached   *)
(* so far, and acc.val holds what the action has built from the matches.   *)
(***************************************************************************)
Fail == [ok |-> FALSE, pos |-> 0, val |-> Nil, err |-> FALSE]

Match(pos, val, err) == [ok |-> TRUE, pos |-> pos, val |-> val, err |-> err]

\* The character at position i, "" behind the end of the text.
At(s, i) == IF i <= Len(s) THEN Char(s, i) ELSE ""

\* The literal lit stands at position i.
LitAt(s, i, lit) ==
    i + Len(lit) - 1 <= Len(s) /\ SubSeq(s, i, i + Len(lit) - 1) = lit

\* The first position from..to at which Stop holds, and the position
\* behind to when it holds at none.
First(from, to, Stop(_)) ==
    Bind([start \in {from} |->
        IF start > to THEN start
        ELSE CHOOSE j \in start..(to + 1) :
                /\ j > to \/ Stop(j)
                /\ \A k \in start..(j - 1) : ~Stop(k)])

Chars(str) == {Char(str, k) : k \in 1..Len(str)}

Digit == Chars("0123456789")

Alpha == Chars("abcdefghijklmnopqrstuvwxyzABCDEFGHIJKLMNOPQRSTUVWXYZ")

NewLine == {"\n", "\r"}

\* The rule _ : the position behind the white space at i.
Blank(s, i) == First(i, Len(s), LAMBDA j : Char(s, j) \notin {"\n", "\r", "\t", " "})

\* InlineComment <- "/*" [^*]+ "*/".
InlineComment(s, i) ==
    IF ~LitAt(s, i, "/*") THEN Fail
    ELSE Bind([close \in {First(i + 2, Len(s), LAMBDA j : Char(s, j) = "*")} |->
        IF close > i + 2 /\ LitAt(s, close, "*/")
        THEN Match(close + 2, SubSeq(s, i + 2, close - 1), FALSE)
        ELSE Fail])

\* QuotedString <- '"' NonQuote+ '"', NonQuote <- '\"' / !'"' . : the body
\* ends at the first quote that no backslash stands before, and holds at
\* least one character.
QuotedString(s, i) ==
    IF At(s, i) # "\"" THEN Fail
    ELSE Bind([close \in {First(i + 1, Len(s),
                    LAMBDA j : /\ Char(s, j) = "\""
                               /\ (j = i + 1 \/ Char(s, j - 1) # "\\"))} |->
        IF close > i + 1 /\ close <= Len(s)
        THEN Match(close + 1, SubSeq(s, i, close), FALSE)
        ELSE Fail])

\* Identifier <- [A-Za-z0-9_.]+ / QuotedString.
Identifier(s, i) ==
    Bind([end \in {First(i, Len(s), LAMBDA j : Char(s, j) \notin Alpha \cup Digit \cup {"_", "."})} |->
        IF end > i THEN Match(end, SubSeq(s, i, end - 1), FALSE)
        ELSE QuotedString(s, i)])

\* LiteralString <- LiteralChar+, LiteralChar <- !"/*" ![\n\r;] [^;,\n].
LiteralString(s, i) ==
    Bind([end \in {First(i, Len(s),
               LAMBDA j : LitAt(s, j, "/*") \/ Char(s, j) \in {"\n", "\r", ";", ","})} |->
        IF end > i THEN Match(end, StrV(SubSeq(s, i, end - 1)), FALSE)
        ELSE Fail])

\* strconv.ParseInt(number, 10, 32) of a string of digits: the number, and
\* the largest int32 with an error when it is beyond the range.
ParseInt(number) ==
    LET n[k \in 0..Len(number)] ==
            IF k = 0 THEN 0
            ELSE LET d == CHOOSE x \in 0..9 :
                              Char("0123456789", x + 1) = Char(number, k)
                     high == n[k - 1]
                 IN IF \/ high < 0
                       \/ high > 214748364
                       \/ high = 214748364 /\ d > 7
                    THEN -1
                    ELSE high * 10 + d
    IN Bind([value \in {n[Len(number)]} |->
           [val |-> Int64V(IF value < 0 THEN 2147483647 ELSE value),
            err |-> value < 0]])

\* IntegerValue <- !Alpha Digit+ ![^;,\n].
IntegerValue(s, i) ==
    IF At(s, i) \notin Digit THEN Fail
    ELSE Bind([end \in {First(i, Len(s), LAMBDA j : Char(s, j) \notin Digit)} |->
        IF /\ At(s, i) \notin Alpha
           /\ At(s, end) \in {"", ";", ",", "\n"}
        THEN Bind([number \in {ParseInt(SubSeq(s, i, end - 1))} |->
                 Match(end, number.val, number.err)])
        ELSE Fail])

\* NumberValue <- DecimalValue / IntegerValue, DecimalValue <-
\* IntegerValue "." IntegerValue with the action strconv.ParseFloat, whose
\* value is kept as the text of the number.
NumberValue(s, i) ==
    Bind([whole \in {IntegerValue(s, i)} |->
        IF ~(whole.ok /\ At(s, whole.pos) = ".") THEN whole
        ELSE Bind([fraction \in {IntegerValue(s, whole.pos + 1)} |->
            IF fraction.ok
            THEN Match(fraction.pos,
                       [t |-> "float64", v |-> SubSeq(s, i, fraction.pos - 1)],
                       whole.err \/ fraction.err)
            ELSE whole])])

\* The merge that sets every key of secondObj in obj.
merge_objOverwriting(obj, secondObj) ==
    LET r[k \in 0..Len(secondObj.sl)] ==
            IF k = 0 THEN obj
            ELSE Set(r[k - 1], secondObj.sl[k].key, secondObj.sl[k].data)
    IN r[Len(secondObj.sl)]

\* merge_obj: the keys of secondObj that obj does not hold are set in obj,
\* in their order.
merge_obj(obj, secondObj) ==
    LET r[k \in 0..Len(secondObj.sl)] ==
            IF k = 0 THEN obj
            ELSE Bind([merged \in {r[k - 1]} |->
                 IF Has(merged, secondObj.sl[k].key) THEN merged
                 ELSE Set(merged, secondObj.sl[k].key, secondObj.sl[k].data)])
    IN r[Len(secondObj.sl)]

RECURSIVE Value(_, _)
RECURSIVE AssignmentList(_, _)
RECURSIVE ArrayBody(_, _)

\* EmptyBody <- _ , also what AssignmentList starts from.
EmptyBody(s, i) == Match(Blank(s, i), ObjV(NewSliceMap), FALSE)

\* EmptyArray <- _ , also what ArrayBody starts from.
EmptyArray(s, i) == Match(Blank(s, i), <<>>, FALSE)

\* Object <- "{" (AssignmentList / EmptyBody) "}".
Object(s, i) ==
    IF At(s, i) # "{" THEN Fail
    ELSE Bind([obj \in {AssignmentList(s, EmptyBody(s, i + 1))} |->
        IF At(s, obj.pos) = "}" THEN Match(obj.pos + 1, obj.val, obj.err)
        ELSE Fail])

\* Array <- "(" (ArrayBody / EmptyArray) ")".
Array(s, i) ==
    IF At(s, i) # "(" THEN Fail
    ELSE Bind([arr \in {ArrayBody(s, EmptyArray(s, i + 1))} |->
        IF At(s, arr.pos) = ")"
        THEN Match(arr.pos + 1, ArrV(arr.val), arr.err)
        ELSE Fail])

\* Value <- Object / Array / NumberValue / StringValue, StringValue <-
\* QuotedString / LiteralString.
Value(s, i) ==
    Bind([object \in {Object(s, i)} |->
    IF object.ok THEN object
    ELSE Bind([array \in {Array(s, i)} |->
    IF array.ok THEN array
    ELSE Bind([number \in {NumberValue(s, i)} |->
    IF number.ok THEN number
    ELSE Bind([quoted \in {QuotedString(s, i)} |->
    IF quoted.ok THEN Match(quoted.pos, StrV(quoted.val), FALSE)
    ELSE LiteralString(s, i)])])])])

\* The position of the value behind _ "=" _ at i, 0 when "=" is not there.
Equals(s, i) ==
    Bind([eq \in {Blank(s, i)} |->
        IF At(s, eq) = "=" THEN Blank(s, eq + 1) ELSE 0])

\* SimpleAssignment <- id:Identifier _ "=" _ val:Value ";".
SimpleAssignment(s, i) ==
    Bind([id \in {Identifier(s, i)} |->
    IF ~id.ok \/ Equals(s, id.pos) = 0 THEN Fail
    ELSE Bind([val \in {Value(s, Equals(s, id.pos))} |->
    IF val.ok /\ At(s, val.pos) = ";"
    THEN Match(val.pos + 1,
               ObjV(NewObjectWithData(<<NewObjectItem(id.val, val.val)>>)),
               val.err)
    ELSE Fail])])

\* CommentedIdentifier <- id:Identifier _ comment:InlineComment.
CommentedIdentifier(s, i) ==
    Bind([id \in {Identifier(s, i)} |->
    IF ~id.ok THEN Fail
    ELSE Bind([comment \in {InlineComment(s, Blank(s, id.pos))} |->
    IF ~comment.ok THEN Fail
    ELSE Match(comment.pos,
               ObjV(NewObjectWithData(<<
                   NewObjectItem("id", StrV(id.val)),
                   NewObjectItem(id.val \o "_comment",
                                 StrV(TrimSpace(comment.val)))>>)),
               FALSE)])])

\* CommentedAssignment1 <- commentedId:CommentedIdentifier _ "=" _
\* val:Value ";".
CommentedAssignment1(s, i) ==
    Bind([commentedId \in {CommentedIdentifier(s, i)} |->
    IF ~commentedId.ok \/ Equals(s, commentedId.pos) = 0 THEN Fail
    ELSE Bind([val \in {Value(s, Equals(s, commentedId.pos))} |->
    IF val.ok /\ At(s, val.pos) = ";"
    THEN LET commentKey == GetString(commentedId.val.v, "id") \o "_comment"
         IN Match(val.pos + 1,
                  ObjV(NewObjectWithData(<<
                      NewObjectItem(GetString(commentedId.val.v, "id"), val.val),
                      NewObjectItem(commentKey,
                                    ForceGet(commentedId.val.v, commentKey))>>)),
                  val.err)
    ELSE Fail])])

\* CommentedValue <- literal:Value _ comment:InlineComment.  The action
\* asserts that the value is a string; the parser returns the failed
\* assertion as an error.
CommentedValue(s, i) ==
    Bind([literal \in {Value(s, i)} |->
    IF ~literal.ok THEN Fail
    ELSE Bind([comment \in {InlineComment(s, Blank(s, literal.pos))} |->
    IF ~comment.ok THEN Fail
    ELSE IF ~isString(literal.val)
    THEN Match(comment.pos, ObjV(NewSliceMap), TRUE)
    ELSE Match(comment.pos,
               ObjV(NewObjectWithData(<<
                   NewObjectItem("comment", StrV(TrimSpace(comment.val))),
                   NewObjectItem("value", StrV(TrimSpace(literal.val.v)))>>)),
               literal.err)])])

\* CommentedAssignment2 <- id:Identifier _ "=" _ commentedVal:CommentedValue
\* ";".
CommentedAssignment2(s, i) ==
    Bind([id \in {Identifier(s, i)} |->
    IF ~id.ok \/ Equals(s, id.pos) = 0 THEN Fail
    ELSE Bind([commentedVal \in {CommentedValue(s, Equals(s, id.pos))} |->
    IF commentedVal.ok /\ At(s, commentedVal.pos) = ";"
    THEN Match(commentedVal.pos + 1,
               ObjV(NewObjectWithData(<<
                   NewObjectItem(id.val, ForceGet(commentedVal.val.v, "value")),
                   NewObjectItem(id.val \o "_comment",
                                 ForceGet(commentedVal.val.v, "comment"))>>)),
               commentedVal.err)
    ELSE Fail])])

\* Assignment <- SimpleAssignment / CommentedAssignment, CommentedAssignment
\* <- CommentedAssignment1 / CommentedAssignment2.
Assignment(s, i) ==
    Bind([simple \in {SimpleAssignment(s, i)} |->
    IF simple.ok THEN simple
    ELSE Bind([commented \in {CommentedAssignment1(s, i)} |->
    IF commented.ok THEN commented
    ELSE CommentedAssignment2(s, i)])])

\* DelimitedSectionBegin <- "/* Begin " sectionName:Identifier " section */"
\* NewLine, and DelimitedSectionEnd <- "/* End " sectionName:Identifier
\* " section */" NewLine, open being the literal in front of the name.
DelimitedSectionLine(s, i, open) ==
    IF ~LitAt(s, i, open) THEN Fail
    ELSE Bind([sectionName \in {Identifier(s, i + Len(open))} |->
        IF /\ sectionName.ok
           /\ LitAt(s, sectionName.pos, " section */")
           /\ At(s, sectionName.pos + 11) \in NewLine
        THEN Match(sectionName.pos + 12,
                   ObjV(NewObjectWithData(<<
                       NewObjectItem("name", StrV(sectionName.val))>>)),
                   FALSE)
        ELSE Fail])

\* DelimitedSection <- begin:DelimitedSectionBegin _ fields:(AssignmentList
\* / EmptyBody) _ DelimitedSectionEnd.  The name of the End line is not
\* compared with that of the Begin line.
DelimitedSection(s, i) ==
    Bind([begin \in {DelimitedSectionLine(s, i, "/* Begin ")} |->
    IF ~begin.ok THEN Fail
    ELSE Bind([fields \in {AssignmentList(s, EmptyBody(s, begin.pos))} |->
    IF DelimitedSectionLine(s, fields.pos, "/* End ").ok
    THEN Match(DelimitedSectionLine(s, fields.pos, "/* End ").pos,
               ObjV(NewObjectWithData(<<
                   NewObjectItem(GetString(begin.val.v, "name"), fields.val)>>)),
               fields.err)
    ELSE Fail])])

\* One turn of the repetition in AssignmentList, (Assignment /
\* DelimitedSection) _ , from acc on: the object of the item is merged into
\* acc.val as the action does (merge_obj).
AssignmentItem(s, acc) ==
    Bind([a \in {Assignment(s, acc.pos)} |->
    IF a.ok
    THEN Match(Blank(s, a.pos), ObjV(merge_obj(acc.val.v, a.val.v)),
               acc.err \/ a.err)
    ELSE Bind([d \in {DelimitedSection(s, acc.pos)} |->
    IF d.ok
    THEN Match(Blank(s, d.pos), ObjV(merge_obj(acc.val.v, d.val.v)),
               acc.err \/ d.err)
    ELSE Fail])])

\* AssignmentList <- _ ((Assignment / DelimitedSection) _)+ , from acc on:
\* the action merges the object of every item into that of the first,
\* which a merge into the empty object gives as well.
AssignmentList(s, acc) ==
    Bind([next \in {AssignmentItem(s, acc)} |->
        IF next.ok THEN AssignmentList(s, next) ELSE acc])

\* EndArrayEntry <- "," / _ &")" : the position behind it, 0 when it is
\* not at i.
EndArrayEntry(s, i) ==
    IF At(s, i) = "," THEN i + 1
    ELSE IF At(s, Blank(s, i)) = ")" THEN Blank(s, i)
    ELSE 0

\* SimpleArrayEntry <- val:Value EndArrayEntry.
SimpleArrayEntry(s, i) ==
    Bind([val \in {Value(s, i)} |->
        IF val.ok /\ EndArrayEntry(s, val.pos) # 0
        THEN Match(EndArrayEntry(s, val.pos), val.val, val.err)
        ELSE Fail])

\* CommentedArrayEntry <- val:Value _ comment:InlineComment EndArrayEntry.
\* The action asserts that the value is a string.
CommentedArrayEntry(s, i) ==
    Bind([val \in {Value(s, i)} |->
    IF ~val.ok THEN Fail
    ELSE Bind([comment \in {InlineComment(s, Blank(s, val.pos))} |->
    IF ~comment.ok \/ EndArrayEntry(s, comment.pos) = 0 THEN Fail
    ELSE IF ~isString(val.val)
    THEN Match(EndArrayEntry(s, comment.pos), ObjV(NewSliceMap), TRUE)
    ELSE Match(EndArrayEntry(s, comment.pos),
               ObjV(NewObjectWithData(<<
                   NewObjectItem("value", StrV(TrimSpace(val.val.v))),
                   NewObjectItem("comment", StrV(TrimSpace(comment.val)))>>)),
               val.err)])])

\* ArrayEntry <- SimpleArrayEntry / CommentedArrayEntry.
ArrayEntry(s, i) ==
    Bind([simple \in {SimpleArrayEntry(s, i)} |->
        IF simple.ok THEN simple ELSE CommentedArrayEntry(s, i)])

\* ArrayBody <- _ head:ArrayEntry _ tail:ArrayBody? _ , from acc on: the
\* entries in their order.
ArrayBody(s, acc) ==
    Bind([head \in {ArrayEntry(s, acc.pos)} |->
        IF head.ok
        THEN Bind([next \in {Match(Blank(s, head.pos), Append(acc.val, head.val),
                        acc.err \/ head.err)} |-> ArrayBody(s, next)])
        ELSE acc])

\* SingleLineComment <- "//" _ NonLine* NewLine at the start of the text.
SingleLineComment(s) ==
    IF ~LitAt(s, 1, "//") THEN Fail
    ELSE Bind([start \in {Blank(s, 3)} |->
         Bind([stop \in {First(start, Len(s), LAMBDA j : Char(s, j) \in NewLine)} |->
            IF stop <= Len(s)
            THEN Match(stop + 1, StrV(SubSeq(s, start, stop - 1)), FALSE)
            ELSE Fail])])

\* Project <- headComment:SingleLineComment? InlineComment? _ obj:Object
\* NewLine _ , as ParseReader returns it: the contents, and whether the
\* text did not match or an action reported an error.
ParseReader(s) ==
    Bind([headComment \in {SingleLineComment(s)} |->
    Bind([comment \in {InlineComment(s, IF headComment.ok THEN headComment.pos ELSE 1)} |->
    Bind([obj \in {Object(s, Blank(s, IF comment.ok THEN comment.pos
                            ELSE IF headComment.ok THEN headComment.pos
                            ELSE 1))} |->
    IF ~obj.ok \/ At(s, obj.pos) \notin NewLine \/ obj.err
    THEN [err |-> TRUE, val |-> NewSliceMap]
    ELSE [err |-> FALSE,
          val |-> NewObjectWithData(
                     <<NewObjectItem("project", obj.val)>>
                     \o (IF headComment.ok
                         THEN <<NewObjectItem("headComment", headComment.val)>>
                         ELSE <<>>))]])])])

(***************************************************************************)
(* The ordered mapping driven by arbitrary Set/Delete/DeleteAt/Clear       *)
(* calls, starting empty.  smOp records the last call, the mapping before  *)
(* it, whether the call panicked, and whether every call so far was a Set  *)
(* or a Delete (pure).                                                     *)
(***************************************************************************)
NoCall ==
    [op |-> "none", path |-> "", opt |-> "", group |-> "", ret |-> "", n |-> 0]

MapInit ==
    /\ sm = NewSliceMap
    /\ smOp = [op |-> "New", key |-> "", val |-> Nil, idx |-> 0,
               before |-> NewSliceMap, panic |-> FALSE, pure |-> TRUE, n |-> 0]
    /\ proj = 0
    /\ call = NoCall
    /\ hist = 0
    /\ rt = 0

MapCanStep == ~smOp.panic /\ smOp.n < MaxMapOps

MapSet ==
    /\ MapCanStep
    /\ \E k \in {"a", "b", "c"}, v \in {IntV(1), IntV(2)} :
          /\ sm' = Set(sm, k, v)
          /\ smOp' = [op |-> "Set", key |-> k, val |-> v, idx |-> 0,
                      before |-> sm, panic |-> SetPanics(sm, k),
                      pure |-> smOp.pure, n |-> smOp.n + 1]
    /\ UNCHANGED <<proj, call, hist, rt>>

MapDelete ==
    /\ MapCanStep
    /\ \E k \in {"a", "b", "c"} :
          /\ sm' = Delete(sm, k)
          /\ smOp' = [op |-> "Delete", key |-> k, val |-> Nil, idx |-> 0,
                      before |-> sm, panic |-> DeletePanics(sm, k),
                      pure |-> smOp.pure, n |-> smOp.n + 1]
    /\ UNCHANGED <<proj, call, hist, rt>>

MapDeleteAt ==
    /\ MapCanStep
    /\ \E i \in 0..3 :
          /\ sm' = DeleteAt(sm, i)
          /\ smOp' = [op |-> "DeleteAt", key |-> "", val |-> Nil, idx |-> i,
                      before |-> sm, panic |-> FALSE, pure |-> FALSE,
                      n |-> smOp.n + 1]
    /\ UNCHANGED <<proj, call, hist, rt>>

MapClear ==
    /\ MapCanStep
    /\ sm' = Clear(sm)
    /\ smOp' = [op |-> "Clear", key |-> "", val |-> Nil, idx |-> 0,
                before |-> sm, panic |-> FALSE, pure |-> FALSE,
                      n |-> smOp.n + 1]
    /\ UNCHANGED <<proj, call, hist, rt>>

MapNext == MapSet \/ MapDelete \/ MapDeleteAt \/ MapClear

SpecMap == MapInit /\ [][MapNext]_vars

(***************************************************************************)
(* The project driven by calls of its operations on a loaded file.  call   *)
(* records the last call and what it returned, hist the call before it     *)
(* and the tree before each of the two.                                    *)
(***************************************************************************)
MaxOps == 2

UuidSeeds == {1, 9}

FrameworkOptions ==
    {[NoOptions EXCEPT !.Link = TRUE],
     [NoOptions EXCEPT !.Link = TRUE, !.CustomFramework = TRUE],
     [NoOptions EXCEPT !.Link = TRUE, !.CustomFramework = TRUE,
                       !.Embed = TRUE, !.Sign = TRUE, !.CompilerFlags = "-w"]}

ProjInit ==
    /\ \E fsp \in {"absent", "inherited", "list", "string"},
          pn2 \in {"same", "other", "absent"} :
          proj = Loaded(ParsedProject(fsp, pn2))
    /\ call = NoCall
    /\ hist = [prev |-> NoCall, before |-> NewSliceMap, before2 |-> NewSliceMap]
    /\ sm = NewSliceMap
    /\ smOp = 0
    /\ rt = 0

ProjCanStep == ~proj.panic /\ call.n < MaxOps

Returned(op, path, opt, group, r) ==
    /\ proj' = [r.p EXCEPT !.rnd = 0]
    /\ call' = [op |-> op, path |-> path, opt |-> opt, group |-> group,
                ret |-> IF r.p.panic THEN "panic"
                        ELSE IF r.err THEN "error" ELSE "nil",
                n |-> call.n + 1]
    /\ hist' = [prev |-> call, before |-> proj.project,
                before2 |-> hist.before]
    /\ UNCHANGED <<sm, smOp, rt>>

CallAddSourceFile ==
    /\ ProjCanStep
    /\ \E filePath \in {"foo.m", "README"},
          group \in {"", LoadedUuid.MainGroup, LoadedUuid.VariantGroup},
          seed \in UuidSeeds :
          Returned("AddSourceFile", filePath, NoOptions, group,
                   AddSourceFile([proj EXCEPT !.rnd = seed], filePath, NoOptions, group))

CallRemoveSourceFile ==
    /\ ProjCanStep
    /\ \E filePath \in {"foo.m", "README"},
          group \in {"", LoadedUuid.MainGroup, LoadedUuid.VariantGroup} :
          Returned("RemoveSourceFile", filePath, NoOptions, group,
                   RemoveSourceFile(proj, filePath, NoOptions, group))

CallAddFramework ==
    /\ ProjCanStep
    /\ \E filePath \in {"Libs/My.framework"}, options \in FrameworkOptions,
          seed \in UuidSeeds :
          Returned("AddFramework", filePath, options, "",
                   AddFramework([proj EXCEPT !.rnd = seed], filePath, options))

CallRemoveFramework ==
    /\ ProjCanStep
    /\ \E filePath \in {"Libs/My.framework"}, options \in FrameworkOptions :
          Returned("RemoveFramework", filePath, options, "",
                   RemoveFramework(proj, filePath, options))

CallAddCopyfile ==
    /\ ProjCanStep
    /\ \E filePath \in {"data.plist"}, seed \in UuidSeeds :
          Returned("AddCopyfile", filePath, NoOptions, "",
                   AddCopyfile([proj EXCEPT !.rnd = seed], filePath, NoOptions))

CallAddPbxGroup ==
    /\ ProjCanStep
    /\ \E files \in {<<>>, <<"main.m">>, <<"new.h">>}, name \in {"Extras"},
          seed \in UuidSeeds :
          Returned("AddPbxGroup", name, NoOptions, "",
                   [p |-> AddPbxGroup([proj EXCEPT !.rnd = seed], files, name, "", ""),
                    err |-> FALSE])

CallRemovePbxGroup ==
    /\ ProjCanStep
    /\ \E name \in {"Extras"} :
          Returned("RemovePbxGroup", name, NoOptions, "",
                   [p |-> RemovePbxGroup(proj, name), err |-> FALSE])

CallAddToSearchPaths ==
    /\ ProjCanStep
    /\ \E key \in {"FRAMEWORK_SEARCH_PATHS", "LIBRARY_SEARCH_PATHS"},
          filePath \in {"Libs/libz.a"} :
          Returned("addToSearchPaths", filePath, NoOptions, key,
                   [p |-> addToSearchPaths(proj, key,
                                           newPbxFile(filePath, NoOptions)),
                    err |-> FALSE])

ProjNext ==
    \/ CallAddSourceFile
    \/ CallRemoveSourceFile
    \/ CallAddFramework
    \/ CallRemoveFramework
    \/ CallAddCopyfile
    \/ CallAddPbxGroup
    \/ CallRemovePbxGroup
    \/ CallAddToSearchPaths

SpecProj == ProjInit /\ [][ProjNext]_vars

(***************************************************************************)
(* Loaded files for the target operations: the small project, the project *)
(* with a second target that the first depends on, which is the file that *)
(* has the PBXTargetDependency and PBXContainerItemProxy sections, and the *)
(* project with two targets and no dependency.                             *)
(***************************************************************************)
TargetUuids ==
    [Widget |-> UuidOf(81), Dependency |-> UuidOf(144), Proxy |-> UuidOf(160),
     Missing |-> UuidOf(255)]

\* The object at path of the tree top gets key set to val.
SetAt(top, path, key, val) == UpdAt(top, path, Set(ObjAt(top, path), key, val))

WidgetTarget ==
    Rec(<<NewObjectItem("isa", StrV("PBXNativeTarget")),
          NewObjectItem("buildConfigurationList", StrV(LoadedUuid.ConfigList)),
          NewObjectItem("buildPhases", ArrV(<<>>)),
          NewObjectItem("dependencies", ArrV(<<>>)),
          NewObjectItem("name", StrV("Widget")),
          NewObjectItem("productType",
                        StrV("\"com.apple.product-type.app-extension\""))>>)

DependencySection ==
    Rec(<<NewObjectItem(TargetUuids.Dependency, Rec(<<
            NewObjectItem("isa", StrV("PBXTargetDependency")),
            NewObjectItem("target", StrV(TargetUuids.Widget)),
            NewObjectItem("target_comment", StrV("Widget")),
            NewObjectItem("targetProxy", StrV(TargetUuids.Proxy)),
            NewObjectItem("targetProxy_comment",
                          StrV("PBXContainerItemProxy"))>>)),
          NewObjectItem(toCommentKey(TargetUuids.Dependency),
                        StrV("PBXTargetDependency"))>>)

ProxySection ==
    Rec(<<NewObjectItem(TargetUuids.Proxy, Rec(<<
            NewObjectItem("isa", StrV("PBXContainerItemProxy")),
            NewObjectItem("containerPortal", StrV(LoadedUuid.Project)),
            NewObjectItem("containerPortal_comment", StrV("Project object")),
            NewObjectItem("proxyType", Int64V(1)),
            NewObjectItem("remoteGlobalIDString", StrV(TargetUuids.Widget)),
            NewObjectItem("remoteInfo", StrV("Widget"))>>)),
          NewObjectItem(toCommentKey(TargetUuids.Proxy),
                        StrV("PBXContainerItemProxy"))>>)

\* The small project whose target App has a dependencies list.
OneTargetFile ==
    SetAt(ParsedProject("absent", "same"),
          <<"objects", "PBXNativeTarget", LoadedUuid.Target>>,
          "dependencies", ArrV(<<>>))

TwoTargetFile ==
    Bind([t1 \in {SetAt(ParsedProject("absent", "same"),
               <<"objects", "PBXNativeTarget", LoadedUuid.Target>>,
               "dependencies",
               ArrV(<<Entry(TargetUuids.Dependency, "PBXTargetDependency")>>))} |->
    Bind([t2 \in {SetAt(SetAt(t1, <<"objects", "PBXNativeTarget">>,
                     TargetUuids.Widget, WidgetTarget),
               <<"objects", "PBXNativeTarget">>,
               toCommentKey(TargetUuids.Widget), StrV("Widget"))} |->
    Bind([t3 \in {SetAt(t2, <<"objects", "PBXProject", LoadedUuid.Project>>, "targets",
               ArrV(<<Entry(LoadedUuid.Target, "App"),
                      Entry(TargetUuids.Widget, "Widget")>>))} |->
        SetAt(SetAt(t3, <<"objects">>, "PBXContainerItemProxy", ProxySection),
              <<"objects">>, "PBXTargetDependency", DependencySection)])])])

\* Two targets of which neither depends on the other: a file without the
\* PBXTargetDependency and PBXContainerItemProxy sections.
IndependentTargetsFile ==
    Bind([t2 \in {SetAt(SetAt(OneTargetFile, <<"objects", "PBXNativeTarget">>,
                     TargetUuids.Widget, WidgetTarget),
               <<"objects", "PBXNativeTarget">>,
               toCommentKey(TargetUuids.Widget), StrV("Widget"))} |->
        SetAt(t2, <<"objects", "PBXProject", LoadedUuid.Project>>, "targets",
              ArrV(<<Entry(LoadedUuid.Target, "App"),
                     Entry(TargetUuids.Widget, "Widget")>>))])

TargetFile(targets) ==
    IF targets = 1 THEN OneTargetFile
    ELSE IF targets = 2 THEN TwoTargetFile
    ELSE IndependentTargetsFile

(***************************************************************************)
(* The project driven by AddTarget, AddTargetDependency and a writer.      *)
(* call holds the last call, its arguments and what it returned, hist the  *)
(* call before it and the project before each of the two.                  *)
(***************************************************************************)
MaxTargetOps == 2

NoTargetCall == [op |-> "none", args |-> <<>>, ret |-> "", n |-> 0]

TargetInit ==
    /\ \E targets \in {1, 2, 3} : proj = Loaded(TargetFile(targets))
    /\ call = NoTargetCall
    /\ hist = [prev |-> NoTargetCall, before |-> proj, before2 |-> proj]
    /\ sm = NewSliceMap
    /\ smOp = 0
    /\ rt = ""

TargetCanStep == ~proj.panic /\ call.n < MaxTargetOps

\* The call op(args) gave the project p and returned ret.
TargetReturned(op, args, p, ret) ==
    /\ proj' = p
    /\ call' = [op |-> op, args |-> args,
                ret |-> IF p.panic THEN "panic" ELSE ret,
                n |-> call.n + 1]
    /\ hist' = [prev |-> call, before |-> proj, before2 |-> hist.before]
    /\ UNCHANGED <<sm, smOp, rt>>

CallAddTarget ==
    /\ TargetCanStep
    /\ \E name \in {"", " ", "MyExt", "My.Ext"},
          targetType \in {"", "widget", "app_extension"},
          bundleId \in {"com.ex.ext"} :
          /\ name \in {"", " "} => targetType = "app_extension"
          /\ \E r \in {AddTarget(proj, name, targetType, "", bundleId)} :
                 TargetReturned("AddTarget",
                                <<name, targetType, "", bundleId>>,
                                r.p, IF r.err THEN "error" ELSE "nil")

CallAddTargetDependency ==
    /\ TargetCanStep
    /\ \E target \in {"", LoadedUuid.Target, TargetUuids.Widget,
                      TargetUuids.Missing},
          dependencyTargets \in
              {<<>>, <<TargetUuids.Widget>>, <<LoadedUuid.Target>>,
               <<LoadedUuid.Target, TargetUuids.Widget>>,
               <<TargetUuids.Widget, TargetUuids.Missing>>} :
          /\ target \in {"", TargetUuids.Missing}
                 => dependencyTargets = <<TargetUuids.Widget>>
          /\ TargetReturned("AddTargetDependency",
                            <<target, dependencyTargets>>,
                            AddTargetDependency(proj, target,
                                                dependencyTargets),
                            "")

\* NewPbxWriter(project, options...).Write(filePath): rt is the text
\* written last.
CallWriteProject ==
    /\ TargetCanStep
    /\ \E omitEmptyValues \in BOOLEAN :
       \E w \in {WriteFile(NewPbxWriter(proj, omitEmptyValues))} :
          /\ proj' = Written(proj, w)
          /\ call' = [op |-> "Write", args |-> <<omitEmptyValues>>,
                      ret |-> IF w.panic THEN "panic" ELSE "nil",
                      n |-> call.n + 1]
          /\ hist' = [prev |-> call, before |-> proj, before2 |-> hist.before]
          /\ rt' = w.out
          /\ UNCHANGED <<sm, smOp>>

TargetNext == CallAddTarget \/ CallAddTargetDependency \/ CallWriteProject

SpecTarget == TargetInit /\ [][TargetNext]_vars

(***************************************************************************)
(* The project driven by the known-region operations.  The files: the     *)
(* small project as Xcode writes it, with and without a knownRegions list *)
(* in its PBXProject record, and the same two with a "project" string in  *)
(* that record that names the record itself.                              *)
(***************************************************************************)
MaxRegionOps == 3

Regions == {"fr", "en"}

RegionFile(listed, named) ==
    Bind([t1 \in {IF listed
                  THEN SetAt(OneTargetFile,
                             <<"objects", "PBXProject", LoadedUuid.Project>>,
                             "knownRegions", ArrV(<<StrV("en"), StrV("Base")>>))
                  ELSE OneTargetFile} |->
        IF named
        THEN SetAt(t1, <<"objects", "PBXProject", LoadedUuid.Project>>,
                   "project", StrV(LoadedUuid.Project))
        ELSE t1])

RegionInit ==
    /\ \E listed \in BOOLEAN, named \in BOOLEAN :
           proj = Loaded(RegionFile(listed, named))
    /\ call = NoTargetCall
    /\ hist = [prev |-> NoTargetCall, before |-> proj, before2 |-> proj]
    /\ sm = NewSliceMap
    /\ smOp = 0
    /\ rt = ""

RegionCanStep == ~proj.panic /\ call.n < MaxRegionOps

CallAddKnownRegion ==
    /\ RegionCanStep
    /\ \E name \in Regions :
          TargetReturned("AddKnownRegion", <<name>>,
                         AddKnownRegion(proj, name), "")

CallRemoveKnownRegion ==
    /\ RegionCanStep
    /\ \E name \in Regions :
          TargetReturned("RemoveKnownRegion", <<name>>,
                         RemoveKnownRegion(proj, name), "")

CallHasKnownRegion ==
    /\ RegionCanStep
    /\ \E name \in Regions :
          TargetReturned("HasKnownRegion", <<name>>,
                         IF HasKnownRegionPanics(proj, name)
                         THEN Panic(proj) ELSE proj,
                         IF HasKnownRegion(proj, name) THEN "true" ELSE "false")

RegionNext ==
    CallAddKnownRegion \/ CallRemoveKnownRegion \/ CallHasKnownRegion

SpecRegion == RegionInit /\ [][RegionNext]_vars

(***************************************************************************)
(* The project driven by the build-property operations.                    *)
(***************************************************************************)
MaxBuildOps == 2

BuildProps == {"PRODUCT_NAME", "SWIFT_VERSION"}

BuildNames == {"", "Debug", "Release"}

BuildTargetNames == {"", "App", "Nope"}

BuildInit ==
    /\ \E targets \in {1, 2} : proj = Loaded(TargetFile(targets))
    /\ call = NoTargetCall
    /\ hist = [prev |-> NoTargetCall, before |-> proj, before2 |-> proj]
    /\ sm = NewSliceMap
    /\ smOp = 0
    /\ rt = ""

BuildCanStep == ~proj.panic /\ call.n < MaxBuildOps

CallUpdateBuildProperty ==
    /\ BuildCanStep
    /\ \E prop \in BuildProps, value \in {"5.0"}, build \in BuildNames,
          targetName \in BuildTargetNames :
          TargetReturned("UpdateBuildProperty",
                         <<prop, value, build, targetName>>,
                         UpdateBuildProperty(proj, prop, value, build, targetName),
                         "")

CallUpdateProductName ==
    /\ BuildCanStep
    /\ \E name \in {"App", "New"} :
          TargetReturned("UpdateProductName", <<name>>,
                         UpdateProductName(proj, name), "")

CallAddBuildProperty ==
    /\ BuildCanStep
    /\ \E prop \in BuildProps, value \in {"5.0"}, build_name \in BuildNames :
          TargetReturned("AddBuildProperty", <<prop, value, build_name>>,
                         AddBuildProperty(proj, prop, value, build_name), "")

BuildNext ==
    CallUpdateBuildProperty \/ CallUpdateProductName \/ CallAddBuildProperty

SpecBuild == BuildInit /\ [][BuildNext]_vars

(***************************************************************************)
(* The project driven by the target-attribute operations.  The files: the *)
(* small project without attributes in its PBXProject record, with        *)
(* attributes that have no TargetAttributes, with TargetAttributes for    *)
(* another target only, with an attribute object for the target App, and  *)
(* with an attribute object for App that holds nothing.                   *)
(***************************************************************************)
MaxAttrOps == 2

AttrKinds == {"none", "noTargetAttributes", "other", "has", "empty"}

TargetAttributesOf(kind) ==
    CASE kind = "other" ->
           Rec(<<NewObjectItem(TargetUuids.Widget, Rec(<<
                   NewObjectItem("CreatedOnToolsVersion", StrV("9.0"))>>))>>)
      [] kind = "has" ->
           Rec(<<NewObjectItem(LoadedUuid.Target, Rec(<<
                   NewObjectItem("CreatedOnToolsVersion", StrV("9.0"))>>))>>)
      [] kind = "empty" ->
           Rec(<<NewObjectItem(LoadedUuid.Target, Rec(<<>>))>>)

AttrFile(kind) ==
    IF kind = "none" THEN OneTargetFile
    ELSE SetAt(OneTargetFile, <<"objects", "PBXProject", LoadedUuid.Project>>,
               "attributes",
               Rec(<<NewObjectItem("LastUpgradeCheck", Int64V(1000))>>
                   \o IF kind = "noTargetAttributes" THEN <<>>
                      ELSE <<NewObjectItem("TargetAttributes",
                                           TargetAttributesOf(kind))>>))

AttrInit ==
    /\ \E kind \in AttrKinds : proj = Loaded(AttrFile(kind))
    /\ call = NoTargetCall
    /\ hist = [prev |-> NoTargetCall, before |-> proj, before2 |-> proj]
    /\ sm = NewSliceMap
    /\ smOp = 0
    /\ rt = ""

AttrCanStep == ~proj.panic /\ call.n < MaxAttrOps

AttrProps == {"DevelopmentTeam", "CreatedOnToolsVersion"}

AttrTargets == {"", LoadedUuid.Target, TargetUuids.Widget}

CallAddTargetAttribute ==
    /\ AttrCanStep
    /\ \E prop \in AttrProps, value \in {"ABC"}, target \in AttrTargets :
       \E r \in {AddTargetAttribute(proj, prop, value, target)} :
          TargetReturned("AddTargetAttribute", <<prop, value, target>>,
                         r.p, IF r.err THEN "error" ELSE "nil")

CallRemoveTargetAttribute ==
    /\ AttrCanStep
    /\ \E prop \in AttrProps, target \in AttrTargets :
       \E r \in {RemoveTargetAttribute(proj, prop, target)} :
          TargetReturned("RemoveTargetAttribute", <<prop, target>>,
                         r.p, IF r.err THEN "error" ELSE "nil")

AttrNext == CallAddTargetAttribute \/ CallRemoveTargetAttribute

SpecAttr == AttrInit /\ [][AttrNext]_vars

(***************************************************************************)
(* The serializer and the parser driven in turn on the contents of a       *)
(* project: Write gives the text of the file, Parse reads that text back   *)
(* as the contents.  rt holds the contents, the text of the file, the      *)
(* option of the writer, the texts written and the trees parsed so far,    *)
(* and whether a Parse returned an error or a Write panicked.              *)
(***************************************************************************)
MaxPasses == 2

RTUuid ==
    [BuildFile |-> UuidOf(10), FileRef |-> UuidOf(11),
     Group |-> UuidOf(12), Project |-> UuidOf(13)]

\* The file addFile makes for a source file, its two keys assigned.
RTFile(settings) ==
    [newPbxFile("Extras/main.m",
                [NoOptions EXCEPT !.Embed = (settings = "signed"),
                                  !.Sign = (settings = "signed"),
                                  !.CompilerFlags = IF settings = "none"
                                                    THEN "" ELSE "-w"])
       EXCEPT !.Uuid = RTUuid.BuildFile, !.FileRef = RTUuid.FileRef]

\* The PBXFileReference record: as the parser gives it for a file of
\* Xcode ("parsed"), or as addToPbxFileReferenceSection sets it ("added").
RTFileReference(fileRef) ==
    IF fileRef = "added" THEN ObjV(newPbxFileReferenceObj(RTFile("none")))
    ELSE Rec(<<NewObjectItem("isa", StrV("PBXFileReference")),
               NewObjectItem("fileEncoding", Int64V(4)),
               NewObjectItem("lastKnownFileType", StrV("sourcecode.c.objc")),
               NewObjectItem("path", StrV("main.m")),
               NewObjectItem("sourceTree", StrV("\"<group>\""))>>)

RTObjects(fileRef, settings, name, children) ==
    NewObjectWithData(<<
      NewObjectItem("PBXBuildFile", Rec(<<
        NewObjectItem(RTUuid.BuildFile, ObjV(pbxBuildFileObj(RTFile(settings)))),
        NewObjectItem(toCommentKey(RTUuid.BuildFile),
                      StrV(longComment(RTFile(settings))))>>)),
      NewObjectItem("PBXFileReference", Rec(<<
        NewObjectItem(RTUuid.FileRef, RTFileReference(fileRef)),
        NewObjectItem(toCommentKey(RTUuid.FileRef), StrV("main.m"))>>)),
      NewObjectItem("PBXGroup", Rec(<<
        NewObjectItem(RTUuid.Group, Rec(<<
          NewObjectItem("isa", StrV("PBXGroup")),
          NewObjectItem("children", ArrV(children)),
          NewObjectItem("name", StrV(name)),
          NewObjectItem("sourceTree", StrV("\"<group>\""))>>)),
        NewObjectItem(toCommentKey(RTUuid.Group), StrV(unquoted(name)))>>)),
      NewObjectItem("PBXVariantGroup", ObjV(NewSliceMap))>>)

RTContents(head, fileRef, settings, name, children) ==
    NewObjectWithData(
      <<NewObjectItem("project", Rec(<<
          NewObjectItem("classes", ObjV(NewSliceMap)),
          NewObjectItem("objects",
                        ObjV(RTObjects(fileRef, settings, name, children))),
          NewObjectItem("rootObject", StrV(RTUuid.Project)),
          NewObjectItem("rootObject_comment", StrV("Project object"))>>))>>
      \o (IF head = "" THEN <<>>
          ELSE <<NewObjectItem("headComment", StrV(head))>>))

RTInit ==
    /\ \E head \in {"", "!$*UTF8*$!"},
          fileRef \in {"parsed", "added"},
          settings \in {"none", "flags", "signed"},
          name \in {"Extras", "\"My Group\""},
          children \in {<<>>, <<StrV(RTUuid.FileRef)>>,
                        <<Entry(RTUuid.FileRef, "main.m")>>},
          omitEmptyValues \in BOOLEAN :
          rt = [contents |-> RTContents(head, fileRef, settings, name, children),
                omitEmptyValues |-> omitEmptyValues,
                text |-> "", written |-> FALSE,
                texts |-> <<>>, trees |-> <<>>,
                err |-> FALSE, panic |-> FALSE]
    /\ sm = NewSliceMap
    /\ smOp = 0
    /\ proj = 0
    /\ call = NoCall
    /\ hist = 0

\* NewPbxWriter(project, options...).Write(filePath).
CallWrite ==
    /\ ~rt.written /\ ~rt.err /\ ~rt.panic
    /\ Len(rt.texts) < MaxPasses
    /\ \E w \in {Write(rt.omitEmptyValues, rt.contents)} :
          rt' = IF w.panic THEN [rt EXCEPT !.panic = TRUE]
                ELSE [rt EXCEPT !.text = w.out, !.written = TRUE,
                                !.texts = Append(@, w.out)]
    /\ UNCHANGED <<sm, smOp, proj, call, hist>>

\* PbxProject.Parse(): the contents are assigned when ParseReader returns
\* no error.
CallParse ==
    /\ rt.written
    /\ \E r \in {ParseReader(rt.text)} :
          rt' = IF r.err THEN [rt EXCEPT !.err = TRUE, !.written = FALSE]
                ELSE [rt EXCEPT !.contents = r.val, !.written = FALSE,
                                !.trees = Append(@, r.val)]
    /\ UNCHANGED <<sm, smOp, proj, call, hist>>

RTNext == CallWrite \/ CallParse

SpecRT == RTInit /\ [][RTNext]_vars

(***************************************************************************)
(* NewPbxProject and Parse.  A file is what ioutil.ReadFile finds at the   *)
(* path of the project: whether it can be read, and its text.              *)
(***************************************************************************)
NewPbxProject ==
    [project |-> NewSliceMap,
     pbxGroupSection |-> NewSliceMap,
     uuids |-> {},
     pbxFileNoCommentReferences |-> [k \in {} |-> 0],
     rnd |-> 0,
     gen |-> <<>>,
     panic |-> FALSE]

\* The buckets initSections reads from the objects, in the order it reads
\* them.
CachedSections ==
    <<"PBXProject", "PBXBuildFile", "XCBuildConfiguration", "PBXFileReference",
      "PBXNativeTarget", "PBXTargetDependency", "PBXContainerItemProxy",
      "XCVersionGroup", "XCConfigurationList">>

\* initSections panics in a GetObject whose key holds a value that is no
\* Object.
initSectionsPanics(top) ==
    \/ GetObjectPanics(top, "objects")
    \/ GetObjectPanics(top, "PBXGroup")
    \/ \E i \in 1..Len(CachedSections) :
          GetObjectPanics(GetObject(top, "objects"), CachedSections[i])

\* buildExistUuids panics in v.(pegparser.Object) on an entry of the objects
\* that is no Object.
buildExistUuidsPanics(objects) ==
    \E i \in 1..Len(objects.sl) :
        objects.sl[i].data # Nil /\ ~isObject(objects.sl[i].data)

\* The tree after initSections.
initSectionsTree(top) ==
    UpdAt(top, <<"objects">>, initSectionsObjects(GetObject(top, "objects")))

\* The project after initSections and buildExistUuids on the parsed
\* contents.  A panic in initSections leaves the contents assigned and the
\* tree as parsed; a panic in buildExistUuids leaves the UUIDs as they were.
initProject(p, top) ==
    IF initSectionsPanics(top)
    THEN Panic([p EXCEPT !.project = top,
                         !.pbxGroupSection =
                             IF \/ GetObjectPanics(top, "objects")
                                \/ GetObjectPanics(top, "PBXGroup")
                             THEN @ ELSE GetObject(top, "PBXGroup")])
    ELSE IF buildExistUuidsPanics(GetObject(top, "objects"))
    THEN Panic([p EXCEPT !.project = initSectionsTree(top),
                         !.pbxGroupSection = GetObject(top, "PBXGroup")])
    ELSE [p EXCEPT !.project = Loaded(top).project,
                   !.pbxGroupSection = Loaded(top).pbxGroupSection,
                   !.uuids = Loaded(top).uuids]

\* Parse with the contents assigned before the error of ParseReader is
\* looked at.
ParseAssignFirst(p, file) ==
    IF ~file.readable THEN [p |-> p, err |-> TRUE]
    ELSE Bind([r \in {ParseReader(file.data)} |->
         IF r.err
         THEN [p |-> [p EXCEPT !.project = GetObject(r.val, "project")],
               err |-> TRUE]
         ELSE [p |-> initProject(p, GetObject(r.val, "project")),
               err |-> FALSE]])

\* Parse: the project after the call and whether it returned an error.
Parse(p, file) ==
    IF ~file.readable THEN [p |-> p, err |-> TRUE]
    ELSE Bind([r \in {ParseReader(file.data)} |->
         IF r.err THEN [p |-> p, err |-> TRUE]
         ELSE [p |-> initProject(p, GetObject(r.val, "project")),
               err |-> FALSE]])

(***************************************************************************)
(* A project from NewPbxProject on, driven by Parse on the files that may  *)
(* be at its path.                                                         *)
(***************************************************************************)
MaxParses == 3

Unreadable == [readable |-> FALSE, data |-> ""]

File(text) == [readable |-> TRUE, data |-> text]

\* Texts the grammar does not match.
BadTexts ==
    {"", "{ a = ; }\n", "{ objects = { }; } x\n"}

\* Texts the grammar matches: with and without objects, with a record under
\* a 24-character key, with records under a commented key, under a key of
\* 24 characters that are no hexadecimal digits and under a shorter key,
\* and with values initSections and buildExistUuids do not expect.
GoodTexts ==
    {"{\n}\n",
     "// !$*UTF8*$!\n{ objects = { }; }\n",
     "{ objects = { S = { AAAAAAAAAAAAAAAAAAAAAAAA = { isa = S; }; }; }; }\n",
     "{ objects = { S = { 0123456789ABCDEF01234567 /* c */ = { isa = S; }; short = { isa = S; }; }; }; }\n",
     "{ objects = { S = { GGGGGGGGGGGGGGGGGGGGGGGG = { isa = S; }; }; }; }\n",
     "{ objects = 1; }\n",
     "{ objects = { S = 1; }; }\n"}

\* Texts with a delimited section: the End line names the section of the
\* Begin line, or another one.
MatchedSectionTexts ==
    {"{ objects = {\n/* Begin A section */\nx = 1;\n/* End A section */\n}; }\n"}

MismatchedSectionTexts ==
    {"{ objects = {\n/* Begin A section */\nx = 1;\n/* End B section */\n}; }\n"}

LoadInit ==
    /\ proj = NewPbxProject
    /\ call = NoTargetCall
    /\ hist = [prev |-> NoTargetCall, before |-> proj, before2 |-> proj]
    /\ sm = NewSliceMap
    /\ smOp = 0
    /\ rt = ""

CallParseFile ==
    /\ ~proj.panic
    /\ call.n < MaxParses
    /\ \E file \in {Unreadable} \cup {File(t) : t \in BadTexts \cup GoodTexts \cup MatchedSectionTexts
                                         \cup MismatchedSectionTexts} :
       \E r \in {Parse(proj, file)} :
          TargetReturned("Parse", <<file>>, r.p,
                         IF r.err THEN "error" ELSE "nil")

LoadNext == CallParseFile

SpecLoad == LoadInit /\ [][LoadNext]_vars

(***************************************************************************)
(* addToSearchPaths and removeFromSearchPaths called on a loaded file,     *)
(* whose Debug configuration may have empty buildSettings.                 *)
(***************************************************************************)
MaxSearchOps == 2

SearchPathKeys == {"FRAMEWORK_SEARCH_PATHS", "LIBRARY_SEARCH_PATHS"}

SearchPathFiles == {"Libs/libz.a", "libz.a"}

SearchInit ==
    /\ \E fsp \in {"empty", "absent", "inherited", "list", "string"},
          pn2 \in {"same", "other", "absent"} :
          proj = Loaded(ParsedProject(fsp, pn2))
    /\ call = NoCall
    /\ hist = [prev |-> NoCall, before |-> NewSliceMap, before2 |-> NewSliceMap]
    /\ sm = NewSliceMap
    /\ smOp = 0
    /\ rt = 0

SearchCanStep == ~proj.panic /\ call.n < MaxSearchOps

SearchAddToSearchPaths ==
    /\ SearchCanStep
    /\ \E key \in SearchPathKeys, filePath \in SearchPathFiles :
          Returned("addToSearchPaths", filePath, NoOptions, key,
                   [p |-> addToSearchPaths(proj, key,
                                           newPbxFile(filePath, NoOptions)),
                    err |-> FALSE])

SearchRemoveFromSearchPaths ==
    /\ SearchCanStep
    /\ \E key \in SearchPathKeys, filePath \in SearchPathFiles :
          Returned("removeFromSearchPaths", filePath, NoOptions, key,
                   [p |-> removeFromSearchPaths(proj, key,
                                                newPbxFile(filePath, NoOptions)),
                    err |-> FALSE])

SearchNext == SearchAddToSearchPaths \/ SearchRemoveFromSearchPaths

SpecSearch == SearchInit /\ [][SearchNext]_vars

(***************************************************************************)
(* One writer on a loaded project, on which Write is called again and      *)
(* again, with edits of the project in between.  rt holds the writer, the  *)
(* text each Write handed to os.WriteFile and the contents it wrote.       *)
(***************************************************************************)
MaxWriterOps == 3

WriterInit ==
    /\ \E fsp \in {"absent", "inherited", "list"},
          pn2 \in {"same", "other", "absent"},
          omitEmptyValues \in BOOLEAN :
          /\ proj = Loaded(ParsedProject(fsp, pn2))
          /\ rt = [w |-> NewPbxWriter(proj, omitEmptyValues),
                   texts |-> <<>>, trees |-> <<>>, n |-> 0]
    /\ call = NoCall
    /\ hist = 0
    /\ sm = NewSliceMap
    /\ smOp = 0

WriterCanStep == ~proj.panic /\ ~rt.w.panic /\ rt.n < MaxWriterOps

\* w.Write(filePath) on the writer made at the start.
WriterWrite ==
    /\ WriterCanStep
    /\ \E w \in {WriteFile(rt.w)} :
          rt' = [rt EXCEPT !.w = w, !.texts = Append(@, w.out),
                           !.trees = Append(@, rt.w.contents),
                           !.n = @ + 1]
    /\ UNCHANGED <<proj, call, hist, sm, smOp>>

\* An edit of the project; the writer holds the contents of the project
\* itself.
WriterAddSourceFile ==
    /\ WriterCanStep
    /\ \E r \in {AddSourceFile([proj EXCEPT !.rnd = 1], "foo.m", NoOptions, "")} :
          /\ proj' = [r.p EXCEPT !.rnd = 0]
          /\ rt' = [rt EXCEPT !.w.contents = Contents(r.p), !.n = @ + 1]
    /\ UNCHANGED <<call, hist, sm, smOp>>

WriterNext == WriterWrite \/ WriterAddSourceFile

SpecWriter == WriterInit /\ [][WriterNext]_vars

(***************************************************************************)
(* The action of AssignmentList on a list of assignments.  rt holds the    *)
(* texts of the assignments, the object each of them gives (list), the     *)
(* object the loop of the action has merged the first i of them into       *)
(* (returnObject, list[0] at its start), and what ParseReader returns for  *)
(* the object written with these assignments.                              *)
(***************************************************************************)
MaxAssignments == 3

AssignmentTexts ==
    {"a = 1;", "a = 2;", "b = 1;", "a /* c */ = 3;", "b = x /* d */;"}

AssignmentSeqs ==
    UNION {[1..n -> AssignmentTexts] : n \in 1..MaxAssignments}

MergeInit ==
    /\ \E texts \in AssignmentSeqs :
       \E list \in {[i \in 1..Len(texts) |-> Assignment(texts[i], 1).val.v]} :
          rt = [texts |-> texts, list |-> list, i |-> 0,
                returnObject |-> list[1],
                parsed |-> FALSE, err |-> FALSE, project |-> NewSliceMap]
    /\ sm = NewSliceMap
    /\ smOp = 0
    /\ proj = 0
    /\ call = NoCall
    /\ hist = 0

\* One turn of `for _, v := range list`.
MergeAssignment ==
    /\ rt.i < Len(rt.list)
    /\ rt' = [rt EXCEPT !.returnObject = merge_obj(@, rt.list[rt.i + 1]),
                        !.i = @ + 1]
    /\ UNCHANGED <<sm, smOp, proj, call, hist>>

\* ParseReader on the object that holds the assignments.
ParseAssignments ==
    /\ ~rt.parsed
    /\ \E r \in {ParseReader("{ " \o Join([i \in 1..Len(rt.texts) |->
                                             rt.texts[i] \o " "])
                             \o "}\n")} :
          rt' = [rt EXCEPT !.parsed = TRUE, !.err = r.err,
                           !.project = GetObject(r.val, "project")]
    /\ UNCHANGED <<sm, smOp, proj, call, hist>>

MergeNext == MergeAssignment \/ ParseAssignments

SpecMerge == MergeInit /\ [][MergeNext]_vars

(***************************************************************************)
(* Integer literals.  rt holds the literal, what ParseReader returns for   *)
(* the object with the assignment `a = literal;`, and the text             *)
(* toIntString gives for the value parsed.                                 *)
(***************************************************************************)
IntPrefixes ==
    {"", "1", "21474836", "214748364", "429496729", "922337203685477580"}

IntLiterals ==
    {prefix \o Char("0123456789", d + 1) : prefix \in IntPrefixes, d \in 0..9}

IntInit ==
    /\ \E literal \in IntLiterals :
          rt = [literal |-> literal, parsed |-> FALSE, err |-> FALSE,
                value |-> Nil, written |-> FALSE, printed |-> ""]
    /\ sm = NewSliceMap
    /\ smOp = 0
    /\ proj = 0
    /\ call = NoCall
    /\ hist = 0

\* ParseReader on `{ a = literal; }`.
ParseInteger ==
    /\ ~rt.parsed
    /\ \E r \in {ParseReader("{ a = " \o rt.literal \o "; }\n")} :
          rt' = [rt EXCEPT !.parsed = TRUE, !.err = r.err,
                           !.value = IF r.err THEN Nil
                                     ELSE ForceGet(GetObject(r.val, "project"), "a")]
    /\ UNCHANGED <<sm, smOp, proj, call, hist>>

\* The writer's text of the value parsed.
PrintInteger ==
    /\ rt.parsed /\ ~rt.err /\ ~rt.written
    /\ rt' = [rt EXCEPT !.written = TRUE, !.printed = toIntString(rt.value)]
    /\ UNCHANGED <<sm, smOp, proj, call, hist>>

IntNext == ParseInteger \/ PrintInteger

SpecInt == IntInit /\ [][IntNext]_vars

(***************************************************************************)
(* Two project instances loaded from the same text and given the same      *)
(* calls with the same arguments.  proj holds the two, a and b; each draws *)
(* from its own random source.  rt holds the text each wrote last.         *)
(***************************************************************************)
MaxTwinOps == 2

TwinInit ==
    /\ \E fsp \in {"absent", "list"} :
          proj = [a |-> Loaded(ParsedProject(fsp, "same")),
                  b |-> Loaded(ParsedProject(fsp, "same"))]
    /\ call = NoTargetCall
    /\ hist = [prev |-> NoTargetCall, before |-> proj, before2 |-> proj]
    /\ sm = NewSliceMap
    /\ smOp = 0
    /\ rt = [a |-> "", b |-> ""]

TwinCanStep == ~proj.a.panic /\ ~proj.b.panic /\ call.n < MaxTwinOps

\* The call op(args) gave the instances a and b.
TwinReturned(op, args, a, b) ==
    /\ proj' = [a |-> a, b |-> b]
    /\ call' = [op |-> op, args |-> args,
                ret |-> IF a.panic \/ b.panic THEN "panic" ELSE "nil",
                n |-> call.n + 1]
    /\ hist' = [prev |-> call, before |-> proj, before2 |-> hist.before]
    /\ UNCHANGED <<sm, smOp, rt>>

TwinAddSourceFile ==
    /\ TwinCanStep
    /\ \E filePath \in {"foo.m"}, seedA \in UuidSeeds, seedB \in UuidSeeds :
          TwinReturned("AddSourceFile", <<filePath>>,
              AddSourceFile([proj.a EXCEPT !.rnd = seedA], filePath,
                            NoOptions, "").p,
              AddSourceFile([proj.b EXCEPT !.rnd = seedB], filePath,
                            NoOptions, "").p)

\* RemoveSourceFile on the first instance only.
TwinRemoveSourceFileOfOne ==
    /\ TwinCanStep
    /\ \E filePath \in {"foo.m", "main.m"} :
          TwinReturned("RemoveSourceFile", <<filePath>>,
              RemoveSourceFile(proj.a, filePath, NoOptions, "").p,
              proj.b)

TwinRemoveSourceFile ==
    /\ TwinCanStep
    /\ \E filePath \in {"foo.m", "main.m"} :
          TwinReturned("RemoveSourceFile", <<filePath>>,
              RemoveSourceFile(proj.a, filePath, NoOptions, "").p,
              RemoveSourceFile(proj.b, filePath, NoOptions, "").p)

TwinAddPbxGroup ==
    /\ TwinCanStep
    /\ \E files \in {<<>>, <<"new.h">>}, seedA \in UuidSeeds,
          seedB \in UuidSeeds :
          TwinReturned("AddPbxGroup", <<files, "Extras">>,
              AddPbxGroup([proj.a EXCEPT !.rnd = seedA], files, "Extras",
                          "", ""),
              AddPbxGroup([proj.b EXCEPT !.rnd = seedB], files, "Extras",
                          "", ""))

\* Each instance is written by a writer of its own, with the same option.
TwinWrite ==
    /\ TwinCanStep
    /\ \E omitEmptyValues \in BOOLEAN :
       \E wa \in {WriteFile(NewPbxWriter(proj.a, omitEmptyValues))},
          wb \in {WriteFile(NewPbxWriter(proj.b, omitEmptyValues))} :
          /\ proj' = [a |-> Written(proj.a, wa), b |-> Written(proj.b, wb)]
          /\ call' = [op |-> "Write", args |-> <<omitEmptyValues>>,
                      ret |-> IF wa.panic \/ wb.panic THEN "panic" ELSE "nil",
                      n |-> call.n + 1]
          /\ hist' = [prev |-> call, before |-> proj, before2 |-> hist.before]
          /\ rt' = [a |-> wa.out, b |-> wb.out]
          /\ UNCHANGED <<sm, smOp>>

TwinNext ==
    \/ TwinAddSourceFile
    \/ TwinRemoveSourceFile
    \/ TwinAddPbxGroup
    \/ TwinWrite

SpecTwin == TwinInit /\ [][TwinNext]_vars

(***************************************************************************)
(* Claims about the ordered mapping.                                       *)
(***************************************************************************)
WithoutKey(keys, key) == SelectSeq(keys, LAMBDA k : k # key)

\* C1: after any sequence of Set and Delete calls from the empty mapping,
\* iteration yields the surviving keys in insertion order: Set of a present
\* key keeps the order and replaces the value, Set of an absent key appends
\* it at the end, Delete(k) removes only k and keeps the order of the rest.
C1_IterationIsInsertionOrder ==
    smOp.pure =>
        LET was == ForeachKeys(smOp.before)
            now == ForeachKeys(sm)
        IN /\ (smOp.op = "Set" /\ Has(smOp.before, smOp.key)) =>
                  now = was /\ ForceGet(sm, smOp.key) = smOp.val
           /\ (smOp.op = "Set" /\ ~Has(smOp.before, smOp.key)) =>
                  now = Append(was, smOp.key)
           /\ smOp.op = "Delete" => now = WithoutKey(was, smOp.key)

\* The positions of key in the list of m.
PositionsOf(m, key) == {n \in 1..Len(m.sl) : m.sl[n].key = key}

\* The keyed index and the ordered list of m agree.
IndexConsistent(m) ==
    /\ \A key \in DOMAIN m.mp :
          /\ Cardinality(PositionsOf(m, key)) = 1
          /\ \A n \in PositionsOf(m, key) :
                /\ m.sl[n].data = ForceGet(m, key)
                /\ m.mp[key].idx = n - 1
    /\ \A n \in 1..Len(m.sl) : Has(m, m.sl[n].key)
    /\ Size(m) = Cardinality(DOMAIN m.mp)

\* C26: after any sequence of Set, Delete, DeleteAt and Clear that
\* completed, every key for which Has is true occurs exactly once in the
\* list, with the value Get gives for it and at the index recorded for it,
\* no other key occurs in the list, and Size is the number of keys.
C26_IndexConsistency == ~smOp.panic => IndexConsistent(sm)

\* C27: Set and Delete of a present key complete normally after any
\* sequence of earlier Set and Delete calls.
C27_SetAndDeleteStayInRange ==
    (smOp.pure /\ smOp.op \in {"Set", "Delete"} /\ Has(smOp.before, smOp.key))
        => ~smOp.panic

(***************************************************************************)
(* Claims about the project mutator.                                       *)
(***************************************************************************)
\* What iteration and the serializer see of a value: for an Object its keys
\* and values in order, recursively; the recorded indexes are left out.
RECURSIVE TreeOf(_)
TreeOf(x) ==
    IF x.t = "Object"
    THEN [t |-> "Object",
          v |-> [i \in 1..Len(x.v.sl) |->
                   [key |-> x.v.sl[i].key, data |-> TreeOf(x.v.sl[i].data)]]]
    ELSE IF x.t = "[]interface{}"
    THEN [t |-> x.t, v |-> [i \in 1..Len(x.v) |-> TreeOf(x.v[i])]]
    ELSE x

\* The last two calls were made with the same path, options and group.
SameArguments ==
    /\ call.path = hist.prev.path
    /\ call.opt = hist.prev.opt
    /\ call.group = hist.prev.group

\* C2: when AddSourceFile is called twice in succession with the same path
\* and the first call succeeded, the second call returns the already-exists
\* error and leaves the tree as the first call left it.
C2_SecondAddIsRejected ==
    (/\ call.op = "AddSourceFile"
     /\ hist.prev.op = "AddSourceFile"
     /\ hist.prev.ret = "nil"
     /\ SameArguments)
    => /\ call.ret = "error"
       /\ TreeOf(ObjV(proj.project)) = TreeOf(ObjV(hist.before))

\* The isa buckets of the tree, as a set of ordered mappings.
Buckets ==
    LET objects == GetObject(proj.project, "objects")
    IN {objects.mp[k].data.v : k \in {n \in DOMAIN objects.mp :
                                        isObject(objects.mp[n].data)}}

\* C3: in every isa bucket a record key is present if and only if its
\* _comment sibling is present, after any sequence of operations.
C3_CommentPairing ==
    ~proj.panic =>
        \A b \in Buckets : \A k \in DOMAIN b.mp :
            IF isCommentKey(k) THEN Has(b, fromCommentKey(k))
            ELSE Has(b, toCommentKey(k))

\* C4: AddSourceFile that succeeded followed by RemoveSourceFile with the
\* same arguments gives back the tree the add started from.
C4_RemoveUndoesAdd ==
    (/\ call.op = "RemoveSourceFile"
     /\ hist.prev.op = "AddSourceFile"
     /\ hist.prev.ret = "nil"
     /\ SameArguments)
    => /\ call.ret = "nil"
       /\ TreeOf(ObjV(proj.project)) = TreeOf(ObjV(hist.before2))

\* The entries of FRAMEWORK_SEARCH_PATHS in the build settings of the
\* configuration key of the tree project.
FrameworkSearchPaths(project, key) ==
    LET paths == ForceGet(GetObject(GetObject(GetObject(GetObject(project,
                     "objects"), "XCBuildConfiguration"), key),
                     "buildSettings"), "FRAMEWORK_SEARCH_PATHS")
    IN IF isArray(paths) THEN {paths.v[i] : i \in 1..Len(paths.v)}
       ELSE IF isString(paths) THEN {paths}
       ELSE {}

\* C5: after AddFramework(path, customFramework) followed by
\* RemoveFramework with the same arguments, FRAMEWORK_SEARCH_PATHS of every
\* build configuration whose PRODUCT_NAME matches productName() no longer
\* contains the search-path entry computed for the file, and a
\* RemoveFramework never adds an entry to the search paths of any
\* configuration.
C5_RemoveFrameworkClearsSearchPath ==
    (call.op = "RemoveFramework" /\ call.opt.CustomFramework) =>
        \A i \in 1..Len(ConfigurationKeys(proj)) :
            LET key == ConfigurationKeys(proj)[i]
                entry == StrV(searchPathForFile(proj,
                             newPbxFile(call.path,
                                        [call.opt EXCEPT !.Embed = FALSE])))
            IN /\ FrameworkSearchPaths(proj.project, key)
                      \subseteq FrameworkSearchPaths(hist.before, key)
               /\ (/\ hist.prev.op = "AddFramework"
                   /\ hist.prev.ret = "nil"
                   /\ SameArguments
                   /\ ProductNameMatches(proj, key))
                  => entry \notin FrameworkSearchPaths(proj.project, key)

\* The UUIDs buildExistUuids collects from the loaded file.
LoadedUuids == {LoadedUuid[f] : f \in DOMAIN LoadedUuid}

\* C6: every value generateUuid returned has 24 characters, was not in the
\* live UUID set when it was drawn and is in the set afterwards; no two
\* calls returned the same value and none returned a UUID of the loaded
\* file.
C6_GeneratedUuidsAreFresh ==
    \A i \in 1..Len(proj.gen) :
        /\ Len(proj.gen[i].uuid) = 24
        /\ ~proj.gen[i].found
        /\ proj.gen[i].uuid \in proj.uuids
        /\ proj.gen[i].uuid \notin LoadedUuids
        /\ \A j \in 1..Len(proj.gen) :
               proj.gen[j].uuid = proj.gen[i].uuid => j = i

\* A first call whose draw collided with a UUID of the loaded file and a
\* second call whose draws collided with the values of the first.
C6_RetriedOnCollision ==
    /\ call.op = "AddSourceFile" /\ hist.prev.op = "AddSourceFile"
    /\ Len(proj.gen) = 4
    /\ LoadedUuids \subseteq proj.uuids
    /\ UuidOf(1) \in LoadedUuids
    /\ proj.gen[1].uuid = UuidOf(2)
    /\ proj.gen[3].uuid = UuidOf(4)

\* The record keys of the isa bucket name.
RecordKeys(name) ==
    {k \in DOMAIN Section(proj, name).mp : ~isCommentKey(k)}

\* C7: a UUID is the key of one record in the whole project: no key is a
\* record key of two different isa buckets (within a bucket a key maps to
\* one record by construction).
C7_UuidKeysOneRecord ==
    LET objects == GetObject(proj.project, "objects")
        names == {n \in DOMAIN objects.mp : isObject(objects.mp[n].data)}
    IN \A a, b \in names : a # b => RecordKeys(a) \cap RecordKeys(b) = {}

\* A value the serializer discriminates: a string, an integer, a sequence
\* whose elements are scalars or ordered mappings, or an ordered mapping
\* of such values.
RECURSIVE WellShaped(_)
WellShaped(x) ==
    IF isString(x) \/ isInt(x) THEN TRUE
    ELSE IF isArray(x)
    THEN \A i \in 1..Len(x.v) :
             /\ isString(x.v[i]) \/ isInt(x.v[i]) \/ isObject(x.v[i])
             /\ WellShaped(x.v[i])
    ELSE IF isObject(x)
    THEN \A i \in 1..Len(x.v.sl) :
             x.v.sl[i].data = Nil \/ WellShaped(x.v.sl[i].data)
    ELSE FALSE

\* C8: after any sequence of edit operations every value stored in the
\* tree is a string, an integer, a sequence or an ordered mapping, and
\* every element of a sequence is a scalar or an ordered mapping.
C8_ValuesAreWellShaped == WellShaped(ObjV(proj.project))

\* The build settings of the configuration key in the tree project.
SettingsOf(project, key) ==
    GetObject(GetObject(GetObject(GetObject(project, "objects"),
        "XCBuildConfiguration"), key), "buildSettings")

\* C10: addToSearchPaths(key, file) changes the buildSettings of exactly
\* the build configurations whose PRODUCT_NAME, unquoted, equals
\* productName(); every other configuration, and every other key of the
\* matching ones, is left as it was.
C10_SearchPathGating ==
    call.op = "addToSearchPaths" =>
        LET before == [proj EXCEPT !.project = hist.before]
        IN \A i \in 1..Len(ConfigurationKeys(before)) :
               LET key == ConfigurationKeys(before)[i]
                   old == SettingsOf(hist.before, key)
                   new == SettingsOf(proj.project, key)
               IN /\ (TreeOf(ObjV(new)) # TreeOf(ObjV(old)))
                         <=> ProductNameMatches(before, key)
                  /\ \A k \in (DOMAIN old.mp \cup DOMAIN new.mp) \ {call.group} :
                         /\ k \in DOMAIN old.mp /\ k \in DOMAIN new.mp
                         /\ TreeOf(new.mp[k].data) = TreeOf(old.mp[k].data)

(***************************************************************************)
(* The PBXGroup bucket.                                                    *)
(***************************************************************************)
\* objects.PBXGroup of a tree.
GroupsOf(project) == GetObject(GetObject(project, "objects"), "PBXGroup")

\* The keys of objects.PBXGroup that the last call added.
AddedGroupKeys == DOMAIN GroupsOf(proj.project).mp \ DOMAIN GroupsOf(hist.before).mp

\* C20: the PBXGroup bucket the project works on is objects.PBXGroup of
\* its tree; pbxGroupByName finds the group App of the loaded file by its
\* comment entry; after AddPbxGroup(paths, name, path, sourceTree),
\* objects.PBXGroup has one record more, with isa PBXGroup, and its comment
\* entry is name.
C20_GroupBucketIsObjectsPBXGroup ==
    /\ proj.pbxGroupSection = GroupsOf(proj.project)
    /\ call.n = 0 => pbxGroupByName(proj, "App").key = LoadedUuid.MainGroup
    /\ (call.op = "AddPbxGroup" /\ call.ret = "nil")
           => \E uuid \in AddedGroupKeys :
                 /\ AddedGroupKeys = {uuid, toCommentKey(uuid)}
                 /\ GetString(GetObject(GroupsOf(proj.project), uuid), "isa")
                        = "PBXGroup"
                 /\ ForceGet(GroupsOf(proj.project), toCommentKey(uuid))
                        = StrV(call.path)

(***************************************************************************)
(* Claims about targets and target dependencies.                          *)
(***************************************************************************)
\* The tree of a project, as iteration and the serializer see it.
ProjectTree(p) == TreeOf(ObjV(p.project))

\* The last call was an AddTarget with an empty or blank name, an empty
\* type or a type that is none of the twelve target kinds.
RejectedAddTarget ==
    /\ call.op = "AddTarget"
    /\ \/ TrimSpaces(call.args[1]) = ""
       \/ call.args[2] = ""
       \/ call.args[2] \notin DOMAIN PRODUCTTYPE_BY_TARGETTYPE

\* The last call was an AddTargetDependency whose target, or one of whose
\* dependencies, was no key of PBXNativeTarget when it was made.
RejectedAddTargetDependency ==
    /\ call.op = "AddTargetDependency"
    /\ \/ ~Has(Section(hist.before, "PBXNativeTarget"), call.args[1])
       \/ \E i \in 1..Len(call.args[2]) :
             ~Has(Section(hist.before, "PBXNativeTarget"), call.args[2][i])

\* C11: a failed edit is atomic: AddTarget with an empty or blank name, an
\* empty type or a type outside the twelve target kinds, and
\* AddTargetDependency with a target or a dependency that is no key of
\* PBXNativeTarget, leave the project tree exactly as it was, also when
\* dependencies that exist are listed before the missing one.
C11_FailedEditsAreAtomic ==
    (RejectedAddTarget \/ RejectedAddTargetDependency)
    => /\ ProjectTree(proj) = ProjectTree(hist.before)
       /\ ~proj.panic
       /\ RejectedAddTarget => call.ret = "error"

\* A rejected AddTarget was followed by an AddTargetDependency on a target
\* that exists, whose first dependency exists and whose second does not.
C11_RejectedAfterValidDependency ==
    /\ hist.prev.op = "AddTarget"
    /\ hist.prev.ret = "error"
    /\ call.op = "AddTargetDependency"
    /\ call.args = <<LoadedUuid.Target,
                     <<TargetUuids.Widget, TargetUuids.Missing>> >>
    /\ Has(Section(hist.before, "PBXNativeTarget"), TargetUuids.Widget)

\* C13: serialization reads the project and changes nothing: after a writer
\* was built for the loaded project and Write was called, the tree (keys,
\* values and order), the cached buckets and the UUID set are those before
\* the call.
C13_WriteLeavesProject ==
    call.op = "Write"
    => /\ proj.project = hist.before.project
       /\ proj.pbxGroupSection = hist.before.pbxGroupSection
       /\ proj.uuids = hist.before.uuids
       /\ proj.pbxFileNoCommentReferences
              = hist.before.pbxFileNoCommentReferences

\* A project to which a target was added was written with empty values
\* omitted, and the text holds the new target.
C13_WrittenAfterAddTarget ==
    /\ call.op = "Write"
    /\ call.args = <<TRUE>>
    /\ call.ret = "nil"
    /\ hist.prev.op = "AddTarget"
    /\ hist.prev.ret = "nil"
    /\ Len(rt) > 100

\* The record keys of the isa bucket name of the project p.
KeysOf(p, name) == {k \in DOMAIN Section(p, name).mp : ~isCommentKey(k)}

\* The record keys the last call added to the isa bucket name.
AddedKeys(name) == KeysOf(proj, name) \ KeysOf(hist.before, name)

\* The UUID an entry of a sequence stands for.
EntryValue(e) ==
    IF isObject(e) THEN GetString(e.v, "value")
    ELSE IF isString(e) THEN e.v ELSE ""

\* The sequence under key of the record uuid of the bucket name of p, as
\* the UUIDs of its entries.
ListOf(p, name, uuid, key) ==
    Bind([list \in {ForceGet(GetObject(Section(p, name), uuid), key)} |->
        IF list = Nil \/ isString(list) \/ isInt(list) \/ isObject(list)
        THEN <<>>
        ELSE [i \in 1..Len(list.v) |-> EntryValue(list.v[i])]])

\* The last call added the two configurations of a target called name with
\* the bundle identifier bundleId, and a configuration list of the two.
AddedConfigurations(name, bundleId) ==
    /\ Cardinality(AddedKeys("XCBuildConfiguration")) = 2
    /\ {GetString(GetObject(Section(proj, "XCBuildConfiguration"), k), "name") :
            k \in AddedKeys("XCBuildConfiguration")} = {"Debug", "Release"}
    /\ \A k \in AddedKeys("XCBuildConfiguration") :
          /\ GetString(SettingsOf(proj.project, k), "PRODUCT_NAME")
                 = Quoted(name)
          /\ GetString(SettingsOf(proj.project, k), "PRODUCT_BUNDLE_IDENTIFIER")
                 = Quoted(bundleId)
    /\ Cardinality(AddedKeys("XCConfigurationList")) = 1
    /\ \A l \in AddedKeys("XCConfigurationList") :
          {ListOf(proj, "XCConfigurationList", l, "buildConfigurations")[i] :
              i \in 1..2} = AddedKeys("XCBuildConfiguration")

\* The last call added one target of the product type productType, listed
\* last in the targets of the first project, and one dependency of the
\* first target on it.
AddedTarget(productType) ==
    /\ Cardinality(AddedKeys("PBXNativeTarget")) = 1
    /\ \A t \in AddedKeys("PBXNativeTarget") :
          /\ GetString(GetObject(Section(proj, "PBXNativeTarget"), t),
                       "productType") = Quoted(productType)
          /\ ListOf(proj, "PBXProject", LoadedUuid.Project, "targets")
                 = Append(ListOf(hist.before, "PBXProject", LoadedUuid.Project,
                                 "targets"), t)
          /\ Cardinality(AddedKeys("PBXTargetDependency")) = 1
          /\ \A d \in AddedKeys("PBXTargetDependency") :
                /\ GetString(GetObject(Section(proj, "PBXTargetDependency"), d),
                             "target") = t
                /\ ListOf(proj, "PBXNativeTarget", LoadedUuid.Target,
                          "dependencies")
                       = Append(ListOf(hist.before, "PBXNativeTarget",
                                       LoadedUuid.Target, "dependencies"), d)

\* C15: AddTarget(name, "app_extension", "", bundleId) on a loaded project
\* with a first target returns success and adds exactly two
\* XCBuildConfiguration records, Debug and Release, with PRODUCT_NAME the
\* quoted name and PRODUCT_BUNDLE_IDENTIFIER the quoted bundleId, one
\* XCConfigurationList of the two, one product PBXFileReference, one
\* PBXNativeTarget of product type com.apple.product-type.app-extension
\* appended to the targets of the first PBXProject, and one
\* PBXTargetDependency of the first target on the new one.
C15_AddTargetAddsRecords ==
    (/\ call.op = "AddTarget"
     /\ call.args[2] = "app_extension"
     /\ TrimSpaces(call.args[1]) # "")
    => /\ call.ret = "nil"
       /\ AddedConfigurations(TrimSpaces(call.args[1]), call.args[4])
       /\ Cardinality(AddedKeys("PBXFileReference")) = 1
       /\ AddedTarget("com.apple.product-type.app-extension")

\* The i-th dependency the last call listed, dep, is recorded: the entry at
\* position at of the dependencies of target is a new PBXTargetDependency
\* on dep whose targetProxy is a new PBXContainerItemProxy for dep.
DependencyRecorded(target, at, dep) ==
    Bind([d \in {ListOf(proj, "PBXNativeTarget", target, "dependencies")[at]} |->
    Bind([record \in {GetObject(Section(proj, "PBXTargetDependency"), d)} |->
    Bind([proxy \in {GetObject(Section(proj, "PBXContainerItemProxy"),
                               GetString(record, "targetProxy"))} |->
        /\ d \in AddedKeys("PBXTargetDependency")
        /\ GetString(record, "target") = dep
        /\ GetString(record, "targetProxy") \in AddedKeys("PBXContainerItemProxy")
        /\ ForceGet(proxy, "proxyType") = IntV(1)
        /\ GetString(proxy, "containerPortal")
               = GetString(proj.project, "rootObject")
        /\ GetString(proxy, "remoteGlobalIDString") = dep
        /\ GetString(proxy, "remoteInfo")
               = GetString(GetObject(Section(proj, "PBXNativeTarget"), dep),
                           "name")])])])

\* C16: AddTargetDependency(target, deps) with target and every dep a key
\* of PBXNativeTarget adds, for each dep in order, one
\* PBXContainerItemProxy record (proxyType 1, containerPortal the
\* rootObject, remoteGlobalIDString the dep, remoteInfo the name of the
\* dep) and one PBXTargetDependency record whose targetProxy is that proxy,
\* and appends the dependency to the dependencies of target, which grow by
\* the number of deps.
C16_DependenciesAreRecorded ==
    (/\ call.op = "AddTargetDependency"
     /\ call.args[1] \in KeysOf(hist.before, "PBXNativeTarget")
     /\ \A i \in 1..Len(call.args[2]) :
           call.args[2][i] \in KeysOf(hist.before, "PBXNativeTarget"))
    => Bind([old \in {ListOf(hist.before, "PBXNativeTarget", call.args[1],
                             "dependencies")} |->
       Bind([new \in {ListOf(proj, "PBXNativeTarget", call.args[1],
                             "dependencies")} |->
          /\ ~proj.panic
          /\ Len(new) = Len(old) + Len(call.args[2])
          /\ SubSeq(new, 1, Len(old)) = old
          /\ Cardinality(AddedKeys("PBXTargetDependency")) = Len(call.args[2])
          /\ Cardinality(AddedKeys("PBXContainerItemProxy")) = Len(call.args[2])
          /\ \A i \in 1..Len(call.args[2]) :
                DependencyRecorded(call.args[1], Len(old) + i,
                                   call.args[2][i])])])

\* The keys of the records stored in the isa buckets under objects of the
\* tree of p.
StoredKeys(p) ==
    LET objects == GetObject(p.project, "objects")
    IN UNION {KeysOf(p, name) : name \in DOMAIN objects.mp}

\* The UUIDs the records of the bucket name hold as entries of the
\* sequence key.
ListedIn(p, name, key) ==
    UNION {{ListOf(p, name, uuid, key)[i] :
                i \in 1..Len(ListOf(p, name, uuid, key))} :
           uuid \in KeysOf(p, name)}

\* The UUIDs the records of the bucket name hold as the string key.
NamedIn(p, name, key) ==
    {GetString(GetObject(Section(p, name), uuid), key) :
         uuid \in KeysOf(p, name)} \ {""}

\* The UUIDs written as references in the tree of p.
References(p) ==
    ListedIn(p, "PBXNativeTarget", "dependencies")
        \cup ListedIn(p, "PBXNativeTarget", "buildPhases")
        \cup ListedIn(p, "PBXProject", "targets")
        \cup ListedIn(p, "PBXSourcesBuildPhase", "files")
        \cup ListedIn(p, "PBXFrameworksBuildPhase", "files")
        \cup ListedIn(p, "PBXGroup", "children")
        \cup NamedIn(p, "PBXTargetDependency", "targetProxy")
        \cup NamedIn(p, "PBXTargetDependency", "target")
        \cup NamedIn(p, "PBXBuildFile", "fileRef")

\* C28: after any sequence of edits that returned, every UUID written as a
\* reference (a dependency, build phase or target entry, an entry of a
\* phase's files, a group child, a dependency's targetProxy, a build file's
\* fileRef) is the key of a record stored in a bucket under objects of the
\* tree, also when the loaded file had no bucket for that kind of record.
C28_ReferencesAreStored ==
    ~proj.panic => References(proj) \subseteq StoredKeys(proj)

\* The last call was an AddTarget with a name that is not blank and one
\* of the twelve target kinds.
AcceptedAddTarget ==
    /\ call.op = "AddTarget"
    /\ TrimSpaces(call.args[1]) # ""
    /\ call.args[2] \in DOMAIN PRODUCTTYPE_BY_TARGETTYPE

\* C29: the file view of every non-empty path is built, also of a path
\* without an extension: AddTarget with a name that is accepted, a plain
\* product name included, does not fail while the view of its product file
\* is built and adds its target.
C29_PlainNameReachesMutation ==
    AcceptedAddTarget
    => /\ call.ret = "nil"
       /\ Cardinality(AddedKeys("PBXNativeTarget")) = 1

(***************************************************************************)
(* Known regions.                                                          *)
(***************************************************************************)
\* The knownRegions entries of the first PBXProject record that are name.
KnownRegionCount(p, name) ==
    Bind([list \in {ForceGet(getFirstProject(p).Object, "knownRegions")} |->
        IF isArray(list)
        THEN Cardinality({i \in 1..Len(list.v) :
                 isString(list.v[i]) /\ list.v[i].v = name})
        ELSE IF list.t = "[]string"
        THEN Cardinality({i \in 1..Len(list.v) : list.v[i] = name})
        ELSE 0])

\* C17: after AddKnownRegion(r) on a loaded project with a PBXProject
\* record, HasKnownRegion(r) is true and r is once in the knownRegions of
\* that record; HasKnownRegion(r) called after RemoveKnownRegion(r) returns
\* false; RemoveKnownRegion of a region that is not listed leaves the tree
\* as it was.
C17_KnownRegionsFollowEdits ==
    /\ call.op = "AddKnownRegion"
           => /\ call.ret # "panic"
              /\ HasKnownRegion(proj, call.args[1])
              /\ KnownRegionCount(proj, call.args[1]) = 1
    /\ (call.op = "HasKnownRegion" /\ hist.prev.op = "RemoveKnownRegion"
            /\ hist.prev.args = call.args)
           => call.ret = "false"
    /\ (call.op = "RemoveKnownRegion"
            /\ KnownRegionCount(hist.before, call.args[1]) = 0)
           => proj = hist.before

(***************************************************************************)
(* Build properties.                                                       *)
(***************************************************************************)
\* The UUIDs in buildConfigurations of the XCConfigurationList of the
\* target named targetName.
TargetConfigurations(p, targetName) ==
    Bind([list \in {ForceGet(GetObject(Section(p, "XCConfigurationList"),
                        GetString(pbxTargetByName(p, targetName),
                                  "buildConfigurationList")),
                        "buildConfigurations")} |->
        IF isArray(list)
        THEN {EntryValue(list.v[i]) : i \in 1..Len(list.v)}
        ELSE {}])

\* The XCBuildConfiguration records the call UpdateBuildProperty(prop,
\* value, build, targetName) is for, in the project p.
SelectedConfigurations(p, build, targetName) ==
    {it.key : it \in
        {nonCommentsItems(Section(p, "XCBuildConfiguration"))[i] :
            i \in 1..Len(nonCommentsItems(Section(p, "XCBuildConfiguration")))}}
    \cap {uuid \in DOMAIN Section(p, "XCBuildConfiguration").mp :
            /\ build = ""
                  \/ GetString(GetObject(Section(p, "XCBuildConfiguration"), uuid),
                               "name") = build
            /\ targetName = "" \/ uuid \in TargetConfigurations(p, targetName)}

BuildSetting(p, uuid, prop) ==
    ForceGet(GetObject(GetObject(Section(p, "XCBuildConfiguration"), uuid),
                       "buildSettings"), prop)

\* C18: after UpdateBuildProperty(prop, value, build, targetName),
\* buildSettings[prop] is value in the XCBuildConfiguration records named
\* build (all when build is empty) that the XCConfigurationList of the
\* target lists (all when targetName is empty), every other
\* XCBuildConfiguration record is as before, and the XCConfigurationList
\* records are as before.
C18_UpdateBuildPropertySetsBuildSettings ==
    call.op = "UpdateBuildProperty"
        => /\ call.ret # "panic"
           /\ \A uuid \in SelectedConfigurations(hist.before, call.args[3],
                                                 call.args[4]) :
                  BuildSetting(proj, uuid, call.args[1]) = StrV(call.args[2])
           /\ \A uuid \in DOMAIN Section(hist.before, "XCBuildConfiguration").mp :
                  uuid \notin SelectedConfigurations(hist.before, call.args[3],
                                                     call.args[4])
                      => ForceGet(Section(proj, "XCBuildConfiguration"), uuid)
                         = ForceGet(Section(hist.before, "XCBuildConfiguration"), uuid)
           /\ Section(proj, "XCConfigurationList")
                  = Section(hist.before, "XCConfigurationList")

(***************************************************************************)
(* Target attributes.                                                      *)
(***************************************************************************)
\* The UUID the call AddTargetAttribute(prop, value, target) is for.
AttributeTarget(p, target) ==
    IF target = "" THEN getFirstTarget(p).UUID ELSE target

\* project.attributes.TargetAttributes.<targetUuid>.<prop> of the tree.
TargetAttribute(p, targetUuid, prop) ==
    ForceGet(GetObject(GetObject(projectAttributes(p), "TargetAttributes"),
                       targetUuid), prop)

\* C19: after AddTargetAttribute(prop, value, target) returned nil,
\* attributes.TargetAttributes.<targetUuid>.<prop> of the first project is
\* value, and attributes has no key it did not have before other than
\* TargetAttributes.
C19_AddTargetAttributeSetsValue ==
    (call.op = "AddTargetAttribute" /\ call.ret = "nil")
        => /\ TargetAttribute(proj, AttributeTarget(hist.before, call.args[3]),
                              call.args[1]) = StrV(call.args[2])
           /\ DOMAIN projectAttributes(proj).mp
                  \subseteq DOMAIN projectAttributes(hist.before).mp
                            \cup {"TargetAttributes"}

(***************************************************************************)
(* Claims about Parse.                                                     *)
(***************************************************************************)
\* C12: a failed Parse leaves the project as it was: when the file cannot
\* be read or the grammar does not match, Parse returns the error and the
\* contents, the cached buckets and the UUID set are those before the call
\* (those of NewPbxProject when no Parse succeeded before); they are
\* assigned only when parsing succeeded.
C12_FailedParseLeavesProject ==
    /\ (call.op = "Parse" /\ (~call.args[1].readable
                              \/ call.args[1].data \in BadTexts))
       => /\ call.ret = "error"
          /\ proj = hist.before
    /\ (call.n <= 2 /\ call.ret \in {"", "error"}
                    /\ hist.prev.ret \in {"", "error"})
       => proj = NewPbxProject

\* A text the grammar does not match was parsed into a project that a
\* Parse before had loaded with a UUID.
C12_FailedParseOfLoadedProject ==
    /\ call.op = "Parse"
    /\ call.ret = "error"
    /\ call.args[1].readable
    /\ hist.prev.ret = "nil"
    /\ hist.before.uuids # {}

\* The characters of the hexadecimal notation.
HexDigits == {Char("0123456789abcdefABCDEF", i) : i \in 1..22}

IsHexUuid(key) ==
    Len(key) = 24 /\ \A i \in 1..24 : Char(key, i) \in HexDigits

\* The keys of the buckets under objects of the tree of p.
BucketKeys(p) ==
    UNION {DOMAIN GetObject(GetObject(p.project, "objects"), name).mp :
              name \in DOMAIN GetObject(p.project, "objects").mp}

\* C21: after a Parse that returned nil, the UUID set is the set of the
\* keys of the buckets under objects that are no comment keys and are 24
\* hexadecimal characters.
C21_UuidsAreTheHexKeys ==
    (call.op = "Parse" /\ call.ret = "nil")
        => proj.uuids = {key \in BucketKeys(proj) :
                            ~isCommentKey(key) /\ IsHexUuid(key)}

\* C22: the Parse of a text whose delimited section ends with the name of
\* another section than it began with returns an error and leaves the
\* project as it was.
C22_MismatchedSectionIsRejected ==
    (call.op = "Parse" /\ call.args[1].readable
                       /\ call.args[1].data \in MismatchedSectionTexts)
        => /\ call.ret = "error"
           /\ proj = hist.before

(***************************************************************************)
(* The value addToSearchPaths leaves under its key.                        *)
(***************************************************************************)
\* What the settings old hold under key after entry was added to them.
PromotedSearchPaths(old, key, entry) ==
    LET current == ForceGet(old, key)
    IN IF current = StrV(INHERITED) THEN ArrV(<<StrV(INHERITED), entry>>)
       ELSE IF isArray(current) THEN ArrV(Append(current.v, entry))
       ELSE ArrV(<<entry>>)

\* The current value is one of the three the promotion is stated for.
PromotionCase(old, key) ==
    \/ ~Has(old, key)
    \/ ForceGet(old, key) = StrV(INHERITED)
    \/ isArray(ForceGet(old, key))

\* C25: after addToSearchPaths(key, file) returned, every build
\* configuration that passes the PRODUCT_NAME gate holds under key: the two-element sequence
\* ["$(inherited)", entry] when it held the string "$(inherited)", its
\* earlier sequence with entry appended when it held a sequence, and the
\* one-element sequence [entry] when it did not hold the key.
C25_SearchPathPromotion ==
    (call.op = "addToSearchPaths" /\ call.ret = "nil") =>
        LET before == [proj EXCEPT !.project = hist.before]
            entry == StrV(searchPathForFile(before,
                              newPbxFile(call.path, NoOptions)))
        IN \A i \in 1..Len(ConfigurationKeys(before)) :
               LET key == ConfigurationKeys(before)[i]
                   old == SettingsOf(hist.before, key)
                   new == SettingsOf(proj.project, key)
               IN (ProductNameMatches(before, key) /\ PromotionCase(old, call.group))
                      => /\ Has(new, call.group)
                         /\ TreeOf(ForceGet(new, call.group))
                                = TreeOf(PromotedSearchPaths(old, call.group, entry))

(***************************************************************************)
(* Write called again on one writer.                                       *)
(***************************************************************************)
\* C30: two calls of Write on one writer with no edit in between hand the
\* same text to os.WriteFile, and the text of every call is one
\* serialization of the tree it wrote: the text a new writer gives for it.
C30_WriteIsRepeatable ==
    /\ \A i \in 1..(Len(rt.texts) - 1) :
          rt.trees[i + 1] = rt.trees[i] => rt.texts[i + 1] = rt.texts[i]
    /\ \A i \in 1..Len(rt.texts) :
          rt.texts[i] = Write(rt.w.omitEmptyValues, rt.trees[i]).out

(***************************************************************************)
(* The merge of an assignment list.                                        *)
(***************************************************************************)
\* The first of the mappings of list that holds key.
FirstWith(list, key) ==
    CHOOSE i \in 1..Len(list) :
        /\ Has(list[i], key)
        /\ \A j \in 1..(i - 1) : ~Has(list[j], key)

\* The position of key among the keys of the mapping m.
PositionIn(m, key) == CHOOSE n \in 1..Len(m.sl) : m.sl[n].key = key

\* key1 occurs in list before key2 does.
OccursBefore(list, key1, key2) ==
    \/ FirstWith(list, key1) < FirstWith(list, key2)
    \/ /\ FirstWith(list, key1) = FirstWith(list, key2)
       /\ PositionIn(list[FirstWith(list, key1)], key1)
              < PositionIn(list[FirstWith(list, key1)], key2)

\* m is the left-biased ordered merge of the mappings of list.
LeftBiasedMerge(list, m) ==
    /\ DOMAIN m.mp = UNION {DOMAIN list[i].mp : i \in 1..Len(list)}
    /\ Len(m.sl) = Cardinality(DOMAIN m.mp)
    /\ \A n \in 1..Len(m.sl) :
          /\ Has(m, m.sl[n].key)
          /\ m.sl[n].data = ForceGet(m, m.sl[n].key)
          /\ m.sl[n].data
                 = ForceGet(list[FirstWith(list, m.sl[n].key)], m.sl[n].key)
    /\ \A n1, n2 \in 1..Len(m.sl) :
          n1 < n2 => OccursBefore(list, m.sl[n1].key, m.sl[n2].key)

\* C23: the object merged from the first i assignments holds each key
\* with the value of its first occurrence, the keys in the order of their
\* first occurrence; the object the parser returns for the whole list is
\* that merge of all of them.
C23_MergeIsLeftBiased ==
    /\ rt.i >= 1 => LeftBiasedMerge(SubSeq(rt.list, 1, rt.i), rt.returnObject)
    /\ rt.parsed => ~rt.err /\ LeftBiasedMerge(rt.list, rt.project)

\* Three assignments with a key that an earlier one holds were merged and
\* parsed.
C23_MergedRepeatedKey ==
    /\ rt.i = 3
    /\ rt.parsed
    /\ \E key \in DOMAIN rt.list[3].mp :
          /\ Has(rt.list[1], key)
          /\ ForceGet(rt.list[1], key) # ForceGet(rt.list[3], key)

(***************************************************************************)
(* The width of integer values.                                            *)
(***************************************************************************)
\* The decimal literal a is at most the decimal literal b (neither with
\* leading zeros).
RECURSIVE DigitsAtMost(_, _)
DigitsAtMost(a, b) ==
    IF Len(a) # Len(b) THEN Len(a) < Len(b)
    ELSE IF a = "" THEN TRUE
    ELSE IF Char(a, 1) # Char(b, 1)
         THEN \E x, y \in 0..9 : /\ x < y
                                /\ Char("0123456789", x + 1) = Char(a, 1)
                                /\ Char("0123456789", y + 1) = Char(b, 1)
    ELSE DigitsAtMost(SubSeq(a, 2, Len(a)), SubSeq(b, 2, Len(b)))

\* C24: every unsigned decimal literal from 0 to 2^63 - 1 is parsed
\* without an error to an integer, and that integer is printed with the
\* digits of the literal.
C24_IntegersAre64Bit ==
    DigitsAtMost(rt.literal, "9223372036854775807") =>
        /\ rt.parsed => ~rt.err /\ isInt(rt.value)
        /\ rt.written => rt.printed = rt.literal

C9_RoundTrip ==
    /\ rt.texts # <<>> => ~rt.err
    /\ Len(rt.texts) = 2 => rt.texts[2] = rt.texts[1]
    /\ Len(rt.trees) = 2 => rt.trees[2] = rt.trees[1]

====
